---- MODULE Spec2Model ----
(***************************************************************************)
(* Model of the motor-database build pipeline (scripts/build_database.py). *)
(*                                                                         *)
(* Text is modelled as a sequence of one-character strings, so that the    *)
(* code's lower()/strip()/replace()/split() are computed, not assumed.     *)
(* Python's None is the one-element sequence NONE for text, the string     *)
(* NULL for identifiers and the number NoneNum for numbers.  An optional   *)
(* dict (tc_meta, simfile_info, a dict.get result) is a sequence of        *)
(* length 0 (None) or 1.                                                   *)
(***************************************************************************)
EXTENDS Integers, Sequences, FiniteSets, TLC

\* ------------------------------------------------------------------------
\* Bounds of the model
\* ------------------------------------------------------------------------
MaxFiles == 2        \* files os.walk yields in one corpus
Builds == 2          \* consecutive runs of build() on the same corpus
MaxElapsed == 1      \* seconds that pass between two readings of the clock
MaxSamples == 2      \* data lines under one RASP header
MaxEngines == 3      \* engine elements of one RSE document
MaxPoints == 3       \* samples of one sequence given to calculate_thrust_stats

\* ------------------------------------------------------------------------
\* Python values
\* ------------------------------------------------------------------------
NONE == <<"None">>
NULL == "NULL"
NoneNum == -1

TruthyText(s) == s # NONE /\ s # <<>>
TruthyNum(n) == n # NoneNum /\ n # 0
TruthyId(i) == i # NULL /\ i # ""

\* Python's `a or b`
OrText(a, b) == IF TruthyText(a) THEN a ELSE b
OrNum(a, b) == IF TruthyNum(a) THEN a ELSE b

\* ------------------------------------------------------------------------
\* str methods
\* ------------------------------------------------------------------------
UpperChars == <<"A","B","C","D","E","F","G","H","I","J","K","L","M",
                "N","O","P","Q","R","S","T","U","V","W","X","Y","Z">>
LowerChars == <<"a","b","c","d","e","f","g","h","i","j","k","l","m",
                "n","o","p","q","r","s","t","u","v","w","x","y","z">>

LowerChar(c) ==
    IF \E i \in 1..26 : UpperChars[i] = c
    THEN LowerChars[CHOOSE i \in 1..26 : UpperChars[i] = c]
    ELSE c

\* str.lower()
Lower(s) == [i \in 1..Len(s) |-> LowerChar(s[i])]

IsSpace(c) == c = " "

RECURSIVE LStrip(_)
LStrip(s) == IF s # <<>> /\ IsSpace(Head(s)) THEN LStrip(Tail(s)) ELSE s

RECURSIVE RStrip(_)
RStrip(s) ==
    IF s # <<>> /\ IsSpace(s[Len(s)]) THEN RStrip(SubSeq(s, 1, Len(s) - 1)) ELSE s

\* str.strip()
Strip(s) == RStrip(LStrip(s))

\* str.replace('_', ' ')
ReplaceUnderscore(s) == [i \in 1..Len(s) |-> IF s[i] = "_" THEN " " ELSE s[i]]

\* str.replace(' ', with) where with is a string of length 0 or 1
RECURSIVE ReplaceSpace(_, _)
ReplaceSpace(s, with) ==
    IF s = <<>> THEN <<>>
    ELSE (IF IsSpace(Head(s)) THEN with ELSE <<Head(s)>>) \o ReplaceSpace(Tail(s), with)

\* the first whitespace-delimited word of a string without leading blanks
RECURSIVE TakeWord(_)
TakeWord(s) ==
    IF s = <<>> \/ IsSpace(Head(s)) THEN <<>> ELSE <<Head(s)>> \o TakeWord(Tail(s))

\* str.split(): the list of whitespace-delimited words
RECURSIVE Split(_)
Split(s) ==
    LET t == LStrip(s)
        w == TakeWord(t)
    IN IF t = <<>> THEN <<>>
       ELSE <<w>> \o Split(SubSeq(t, Len(w) + 1, Len(t)))

\* s.split()[0] raises IndexError when s has no word
SplitFirstRaises(s) == Split(s) = <<>>
SplitFirst(s) == Split(s)[1]

\* ------------------------------------------------------------------------
\* Text constants of the modelled corpus and catalog
\* ------------------------------------------------------------------------
sAeroTech == <<"A","e","r","o","T","e","c","h">>
sAT == <<"A","T">>
sTestMotors == <<"T","e","s","t"," ","M","o","t","o","r","s">>
sTest_Motors == <<"T","e","s","t","_","M","o","t","o","r","s">>
sTM == <<"T","M">>
sEstes == <<"E","s","t","e","s">>
sEstesIndustries == <<"E","s","t","e","s"," ","I","n","d","u","s","t","r","i","e","s">>
sZed == <<"Z","e","d">>
sUnderscore == <<"_">>
sEmpty == <<>>
sUnknown == <<"U","n","k","n","o","w","n">>
sUNK == <<"U","N","K">>
sH128W == <<"H","1","2","8","W">>
sH128 == <<"H","1","2","8">>
sG64W == <<"G","6","4","W">>
sG64 == <<"G","6","4">>
sF32 == <<"F","3","2">>
sF40 == <<"F","4","0">>
sH == <<"H">>
sG == <<"G">>
sDelay6 == <<"6">>
sDelay10 == <<"1","0">>
sSU == <<"S","U">>
sReload == <<"r","e","l","o","a","d">>
sRASP == <<"R","A","S","P">>
sRSE == <<"R","S","E">>
sCert == <<"c","e","r","t">>

\* ------------------------------------------------------------------------
\* dict access
\* ------------------------------------------------------------------------
\* a key that a dict does not have
ABSENT == <<"Absent">>

\* dict.get(key, default) for a field that holds ABSENT when the key is missing
DictGet(v, default) == IF v = ABSENT THEN default ELSE v

\* the last value registered for a key in a list of <<key, value>> assignments
\* (a dict filled by successive d[key] = value), as a sequence of length 0 or 1
LastAssigned(regs, key) ==
    LET hits == {i \in 1..Len(regs) : regs[i][1] = key}
    IN IF hits = {} THEN <<>>
       ELSE <<regs[CHOOSE i \in hits : \A j \in hits : j <= i][2]>>

\* ------------------------------------------------------------------------
\* The auxiliary JSON files as fetch_updates.py writes them
\* ------------------------------------------------------------------------
\* manufacturers.json
canonical_manufacturers ==
    << [name |-> sAeroTech, abbrev |-> sAT],
       [name |-> sTestMotors, abbrev |-> sTM] >>

\* motors_metadata.json, "motors": <<key, entry>> in file order
MotorT1 ==
    [motorId |-> "T1", manufacturer |-> sAeroTech, manufacturerAbbrev |-> sAT,
     designation |-> sH128W, commonName |-> sH128, impulseClass |-> sH,
     diameter |-> 29, length |-> 194, type |-> sReload,
     avgThrustN |-> 128, maxThrustN |-> 190, totImpulseNs |-> 219, burnTimeS |-> 2,
     dataFiles |-> 2, infoUrl |-> NONE, totalWeightG |-> 206, propWeightG |-> 94,
     delays |-> sDelay10, caseInfo |-> NONE, propInfo |-> NONE, sparky |-> FALSE,
     updatedOn |-> NONE]

MotorT2 ==
    [motorId |-> "T2", manufacturer |-> sAeroTech, manufacturerAbbrev |-> sAT,
     designation |-> sG64W, commonName |-> sG64, impulseClass |-> sG,
     diameter |-> 24, length |-> 124, type |-> sReload,
     avgThrustN |-> 64, maxThrustN |-> 98, totImpulseNs |-> 118, burnTimeS |-> 2,
     dataFiles |-> 1, infoUrl |-> NONE, totalWeightG |-> 151, propWeightG |-> 62,
     delays |-> sDelay6, caseInfo |-> NONE, propInfo |-> NONE, sparky |-> TRUE,
     updatedOn |-> NONE]

tc_motors == << <<"T1", MotorT1>>, <<"T2", MotorT2>> >>

\* tc_motor_id in tc_motors
InTcMotors(id) == \E i \in 1..Len(tc_motors) : tc_motors[i][1] = id

\* tc_motors[tc_motor_id]
TcMotorsGet(id) == tc_motors[CHOOSE i \in 1..Len(tc_motors) : tc_motors[i][1] = id][2]

\* simfile_to_motor.json: simfile id -> bare motor id or object.  The ids
\* "s1".."s4" stand for 24-character hexadecimal tokens; "X9" is a motor id
\* that motors_metadata.json does not hold.
InfoStr(motorId) == [kind |-> "str", motorId |-> motorId]
InfoObj(motorId, format, source) ==
    [kind |-> "obj", motorId |-> motorId, format |-> format, source |-> source,
     license |-> ABSENT, infoUrl |-> ABSENT, dataUrl |-> ABSENT]

simfile_mapping ==
    [k \in {"s1", "s2", "s3", "s4"} |->
        CASE k = "s1" -> InfoStr("T1")
          [] k = "s2" -> InfoObj("T2", ABSENT, sCert)
          [] k = "s3" -> InfoStr("X9")
          [] k = "s4" -> InfoObj("X9", sRASP, sCert)]

\* ------------------------------------------------------------------------
\* extract_simfile_info_from_filename
\* ------------------------------------------------------------------------
\* matches: what re.findall(r'[a-f0-9]{24}', base) returns for the file name.
\* Result: <<simfile_id, simfile_info>>, simfile_info a sequence of length 0
\* (None) or 1 (the info dict).
RECURSIVE extract_simfile_info_from_filename(_, _)
extract_simfile_info_from_filename(matches, mapping) ==
    IF matches = <<>> THEN <<NULL, <<>>>>
    ELSE IF Head(matches) \in DOMAIN mapping
    THEN LET info == mapping[Head(matches)]
         IN IF info.kind = "str"
            THEN <<Head(matches),
                   <<[motorId |-> info.motorId, format |-> ABSENT, source |-> ABSENT,
                      license |-> ABSENT, infoUrl |-> ABSENT, dataUrl |-> ABSENT]>> >>
            ELSE <<Head(matches),
                   <<[motorId |-> info.motorId, format |-> info.format,
                      source |-> info.source, license |-> info.license,
                      infoUrl |-> info.infoUrl, dataUrl |-> info.dataUrl]>> >>
    ELSE extract_simfile_info_from_filename(Tail(matches), mapping)

\* ------------------------------------------------------------------------
\* build_manufacturer_lookup
\* ------------------------------------------------------------------------
\* the assignments the loop over the canonical manufacturers makes for one entry
CanonicalRegs(mfr) ==
    LET canonical == <<mfr.name, mfr.abbrev>>
        name_lower == Lower(mfr.name)
    IN (IF mfr.name # <<>> THEN << <<Lower(mfr.name), canonical>> >> ELSE <<>>)
       \o (IF mfr.abbrev # <<>> THEN << <<Lower(mfr.abbrev), canonical>> >> ELSE <<>>)
       \o << <<ReplaceSpace(name_lower, <<>>), canonical>>,
             <<ReplaceSpace(name_lower, <<"-">>), canonical>>,
             <<ReplaceSpace(name_lower, <<"_">>), canonical>> >>

RECURSIVE AllCanonicalRegs(_)
AllCanonicalRegs(manufacturers) ==
    IF manufacturers = <<>> THEN <<>>
    ELSE CanonicalRegs(Head(manufacturers)) \o AllCanonicalRegs(Tail(manufacturers))

\* the AeroTech alias loop for one prefix
sRms == <<"r","m","s">>
sRcs == <<"r","c","s">>
sApogee == <<"a","p","o","g","e","e">>
AeroTechPrefixRegs(prefix) ==
    LET aerotech == <<sAeroTech, sAeroTech>>
    IN << <<prefix, aerotech>>,
          <<prefix \o <<"-">> \o sRms, aerotech>>,
          <<prefix \o <<"-">> \o sRcs, aerotech>>,
          <<prefix \o <<"_">> \o sRms, aerotech>>,
          <<prefix \o <<"_">> \o sRcs, aerotech>>,
          <<sRcs \o <<"-">> \o prefix, aerotech>>,
          <<sRcs \o <<"_">> \o prefix, aerotech>>,
          <<prefix \o <<"/">> \o sRcs, aerotech>>,
          <<sRcs \o <<"/">> \o prefix, aerotech>>,
          <<prefix \o <<"-">> \o sApogee, aerotech>>,
          <<prefix \o <<"_">> \o sApogee, aerotech>> >>

\* the hard-coded alias assignments (the AeroTech and Estes groups of the table)
AliasRegs ==
    LET aerotech == <<sAeroTech, sAeroTech>>
        estes == <<sEstesIndustries, sEstes>>
    IN AeroTechPrefixRegs(<<"a">>)
       \o AeroTechPrefixRegs(<<"a","t">>)
       \o AeroTechPrefixRegs(<<"a","e","r","o">>)
       \o AeroTechPrefixRegs(<<"a","e","r","o","t">>)
       \o AeroTechPrefixRegs(Lower(sAeroTech))
       \o << <<(<<"i","s","p">>), aerotech>>,
             <<Lower(sAeroTech) \o <<"/">> \o sRcs, aerotech>>,
             <<sRcs \o <<"/">> \o Lower(sAeroTech), aerotech>> >>
       \o << <<(<<"e">>), estes>>, <<(<<"e","s">>), estes>>,
             <<Lower(sEstes), estes>>, <<Lower(sEstesIndustries), estes>> >>

build_manufacturer_lookup(manufacturers) == AllCanonicalRegs(manufacturers) \o AliasRegs

\* mfr_lookup.get(key): a sequence of length 0 (None) or 1 (<<name, abbrev>>)
mfr_lookup_get(lookup, key) == LastAssigned(lookup, key)

\* ------------------------------------------------------------------------
\* metadata_lookup: (manufacturer key, designation or common name) -> entry
\* ------------------------------------------------------------------------
MetaRegs(motor_meta) ==
    LET mfr_name == Lower(motor_meta.manufacturer)
        mfr_abbrev == Lower(motor_meta.manufacturerAbbrev)
        designation == Lower(motor_meta.designation)
        common_name == Lower(motor_meta.commonName)
        ForKey(mfr_key) ==
            IF mfr_key # <<>>
            THEN (IF designation # <<>>
                  THEN << <<(<<mfr_key, designation>>), motor_meta>> >> ELSE <<>>)
                 \o (IF common_name # <<>>
                  THEN << <<(<<mfr_key, common_name>>), motor_meta>> >> ELSE <<>>)
            ELSE <<>>
    IN ForKey(mfr_name) \o ForKey(mfr_abbrev)

RECURSIVE build_metadata_lookup(_)
build_metadata_lookup(motors) ==
    IF motors = <<>> THEN <<>>
    ELSE MetaRegs(Head(motors)[2]) \o build_metadata_lookup(Tail(motors))

metadata_lookup == build_metadata_lookup(tc_motors)

\* ------------------------------------------------------------------------
\* calculate_thrust_stats
\* ------------------------------------------------------------------------
\* Times and thrusts are whole numbers of a fixed unit; the corpus below uses
\* values for which the two divisions are exact.
RECURSIVE TrapezoidSum(_, _)
TrapezoidSum(points, i) ==
    IF i > Len(points) THEN 0
    ELSE LET dt == points[i][1] - points[i - 1][1]
             avg_f == (points[i][2] + points[i - 1][2]) \div 2
         IN avg_f * dt + TrapezoidSum(points, i + 1)

RECURSIVE MaxThrust(_)
MaxThrust(points) ==
    IF Len(points) = 1 THEN points[1][2]
    ELSE LET m == MaxThrust(Tail(points))
         IN IF points[1][2] >= m THEN points[1][2] ELSE m

\* the time of the first sample
TimeOfFirst(points) == points[1][1]

\* line 443: points[-1][0]
BurnTime(points) == points[Len(points)][1]

\* <<impulse, avg_thrust, max_thrust, burn_time>>
calculate_thrust_stats(points) ==
    IF points = <<>> THEN <<0, 0, 0, 0>>
    ELSE LET burn_time == BurnTime(points)
             max_thrust == MaxThrust(points)
             impulse == IF Len(points) > 1 THEN TrapezoidSum(points, 2) ELSE 0
             avg_thrust == IF burn_time > 0 THEN impulse \div burn_time ELSE 0
         IN <<impulse, avg_thrust, max_thrust, burn_time>>

\* ------------------------------------------------------------------------
\* The corpus: files under DATA_DIR with what their parser returns
\* ------------------------------------------------------------------------
\* parse_rasp_all closes a curve at its first zero-thrust line
pointsA == << <<1, 12>>, <<3, 0>> >>
pointsB == << <<0, 4>>, <<1, 0>> >>
\* parse_rse_all keeps every eng-data element
pointsC == << <<0, 0>>, <<1, 10>>, <<2, 0>> >>

\* a record as parse_rasp_all builds it: common_name is the designation
RaspRecord(name, diameter, length, delays, prop_weight, total_weight, manufacturer, points) ==
    << [common_name |-> name, designation |-> name, diameter |-> diameter,
        length |-> length, delays |-> delays, prop_weight |-> prop_weight,
        total_weight |-> total_weight, manufacturer |-> manufacturer, type |-> sSU],
       points >>

\* a record as parse_rse_all builds it
RseRecord(code, common_name, mfg, dia, len, propWt, initWt, delays, points) ==
    << [designation |-> code, common_name |-> common_name, manufacturer |-> mfg,
        diameter |-> dia, length |-> len, prop_weight |-> propWt,
        total_weight |-> initWt, delays |-> delays, type |-> sSU],
       points >>

recH128 == RaspRecord(sH128W, 29, 194, sDelay6, 90, 200, sAeroTech, pointsA)
recG64 == RaspRecord(sG64W, 24, 124, NONE, 60, 150, sAT, pointsB)
recF32 == RaspRecord(sF32, 29, 124, NONE, 50, 70, sTest_Motors, pointsB)
recF40 == RaspRecord(sF40, 29, 124, sDelay6, 50, 70, sTestMotors, pointsA)
recZed == RaspRecord(sF32, 18, 70, NONE, 10, 20, sZed, pointsB)
recUnderscore == RaspRecord(sF40, 18, 70, NONE, 10, 20, sUnderscore, pointsB)
\* an engine element without dia, len, propWt, initWt and delays attributes
recH128Bare == RseRecord(sH128W, sH128, sAT, 0, 0, 0, 0, NONE, pointsC)
\* an engine element with an empty code and an empty mfg attribute
recNoMfg == RseRecord(sEmpty, sEmpty, sEmpty, 24, 100, 30, 60, NONE, pointsB)

\* matches: the 24-hex tokens of the file name, in order ("s0" is in no mapping)
File(ext, matches, motors_list) == [ext |-> ext, matches |-> matches, motors_list |-> motors_list]

FileKinds ==
    { File("eng", <<"s0", "s1">>, <<recH128>>),
      File("eng", <<>>, <<recH128>>),
      File("eng", <<"s2">>, <<recH128>>),
      File("rse", <<"s1">>, <<recH128Bare>>),
      File("eng", <<"s1">>, <<recH128, recG64>>),
      File("rasp", <<>>, <<recF32>>),
      File("eng", <<>>, <<recZed>>),
      File("eng", <<>>, <<recUnderscore, recF40, recH128>>),
      File("rse", <<"s2">>, <<recNoMfg>>),
      File("eng", <<"s3">>, <<recF32>>),
      File("eng", <<"s4">>, <<recF40>>),
      File("eng", <<>>, <<recF40>>),
      File("eng", <<"s1">>, <<>>),
      File("json", <<>>, <<>>) }

Corpora == UNION { [1..n -> FileKinds] : n \in 0..MaxFiles }

\* lower_file.endswith(".eng") or ".rasp" / ".rse"
IsRaspFile(file) == file.ext \in {"eng", "rasp"}
IsRseFile(file) == file.ext = "rse"
FileFmt(file) == IF IsRaspFile(file) THEN sRASP ELSE sRSE

\* ------------------------------------------------------------------------
\* build(): the steps of one record (lines 654-803)
\* ------------------------------------------------------------------------
\* the empty dict
EmptyMap == [k \in {} |-> 0]

\* d[k] = v
MapSet(d, k, v) == [x \in DOMAIN d \cup {k} |-> IF x = k THEN v ELSE d[x]]

\* lines 661-664: <<tc_motor_id, tc_meta>> from the file name's simfile info
ExactMatch(is_single, simfile_info) ==
    IF is_single /\ simfile_info # <<>> /\ TruthyId(simfile_info[1].motorId)
    THEN LET tc_motor_id == simfile_info[1].motorId
         IN IF InTcMotors(tc_motor_id)
            THEN <<tc_motor_id, <<TcMotorsGet(tc_motor_id)>> >>
            ELSE <<tc_motor_id, <<>> >>
    ELSE <<NULL, <<>> >>

\* the fallback consulted whatever the file name gave
AlwaysFallback(tc_meta) == TRUE

\* line 667: `if not tc_meta` (the fallback is consulted)
UseFallback(tc_meta) == tc_meta = <<>>

\* line 668
NormalizedMfr(parsed_mfr) == Strip(ReplaceUnderscore(parsed_mfr))

\* line 669: building the list of keys raises IndexError when a split() is empty
MfrKeysRaise(parsed_mfr) ==
    SplitFirstRaises(parsed_mfr) \/ SplitFirstRaises(NormalizedMfr(parsed_mfr))

MfrKeys(parsed_mfr) ==
    << parsed_mfr, NormalizedMfr(parsed_mfr),
       SplitFirst(parsed_mfr), SplitFirst(NormalizedMfr(parsed_mfr)) >>

\* lines 669-674: the first key with an entry in metadata_lookup
RECURSIVE FirstMetaHit(_, _)
FirstMetaHit(keys, parsed_designation) ==
    IF keys = <<>> THEN <<>>
    ELSE LET hit == LastAssigned(metadata_lookup, <<Head(keys), parsed_designation>>)
         IN IF hit # <<>> THEN hit ELSE FirstMetaHit(Tail(keys), parsed_designation)

FallbackMatch(parsed_mfr, parsed_designation) ==
    FirstMetaHit(MfrKeys(parsed_mfr), parsed_designation)

\* lines 677-684: raises IndexError when a split() that is reached is empty
CanonicalRaises(lookup, parsed_mfr) ==
    LET normalized_mfr == NormalizedMfr(parsed_mfr)
    IN /\ mfr_lookup_get(lookup, parsed_mfr) = <<>>
       /\ mfr_lookup_get(lookup, normalized_mfr) = <<>>
       /\ \/ SplitFirstRaises(parsed_mfr)
          \/ /\ mfr_lookup_get(lookup, SplitFirst(parsed_mfr)) = <<>>
             /\ SplitFirstRaises(normalized_mfr)

\* the four keys consulted from the last to the first
CanonicalLastKeyFirst(lookup, parsed_mfr) ==
    LET normalized_mfr == NormalizedMfr(parsed_mfr)
        c1 == mfr_lookup_get(lookup, parsed_mfr)
        c2 == mfr_lookup_get(lookup, normalized_mfr)
        c3 == mfr_lookup_get(lookup, SplitFirst(parsed_mfr))
        c4 == mfr_lookup_get(lookup, SplitFirst(normalized_mfr))
    IN IF c4 # <<>> THEN c4
       ELSE IF c3 # <<>> THEN c3
       ELSE IF c2 # <<>> THEN c2
       ELSE c1

\* lines 677-684
Canonical(lookup, parsed_mfr) ==
    LET normalized_mfr == NormalizedMfr(parsed_mfr)
        c1 == mfr_lookup_get(lookup, parsed_mfr)
        c2 == mfr_lookup_get(lookup, normalized_mfr)
        c3 == mfr_lookup_get(lookup, SplitFirst(parsed_mfr))
    IN IF c1 # <<>> THEN c1
       ELSE IF c2 # <<>> THEN c2
       ELSE IF c3 # <<>> THEN c3
       ELSE mfr_lookup_get(lookup, SplitFirst(normalized_mfr))

\* lines 687-695: <<mfr_name, mfr_abbrev>>
ManufacturerInfo(tc_meta, canonical) ==
    IF tc_meta # <<>> /\ TruthyText(tc_meta[1].manufacturer)
    THEN <<tc_meta[1].manufacturer, tc_meta[1].manufacturerAbbrev>>
    ELSE IF canonical # <<>> THEN canonical[1]
    ELSE <<sUnknown, sUNK>>

\* line 710
Designation(tc_meta, parsed_meta) ==
    IF tc_meta # <<>> THEN DictGet(tc_meta[1].designation, parsed_meta.designation)
    ELSE parsed_meta.designation

\* the lookup by catalog id alone
ExistingMotorByTcIdOnly(tc_motor_id, motor_key, by_tc_id, by_key) ==
    IF TruthyId(tc_motor_id) /\ tc_motor_id \in DOMAIN by_tc_id THEN by_tc_id[tc_motor_id]
    ELSE 0

\* lines 714-718: the id of the motor row to reuse, 0 for None
ExistingMotor(tc_motor_id, motor_key, by_tc_id, by_key) ==
    IF TruthyId(tc_motor_id) /\ tc_motor_id \in DOMAIN by_tc_id THEN by_tc_id[tc_motor_id]
    ELSE IF motor_key \in DOMAIN by_key THEN by_key[motor_key]
    ELSE 0

\* lines 723-745: the motors row of a catalog-matched record
CatalogMotorRow(id, mfr_id, tc, parsed_meta) ==
    [id |-> id, manufacturer_id |-> mfr_id, tc_motor_id |-> tc.motorId,
     designation |-> DictGet(tc.designation, parsed_meta.designation),
     common_name |-> OrText(parsed_meta.common_name, tc.commonName),
     impulse_class |-> tc.impulseClass,
     diameter |-> parsed_meta.diameter, length |-> parsed_meta.length,
     total_impulse |-> tc.totImpulseNs, avg_thrust |-> tc.avgThrustN,
     max_thrust |-> tc.maxThrustN, burn_time |-> tc.burnTimeS,
     propellant_weight |-> OrNum(parsed_meta.prop_weight, tc.propWeightG),
     total_weight |-> OrNum(parsed_meta.total_weight, tc.totalWeightG),
     type |-> DictGet(tc.type, parsed_meta.type),
     delays |-> OrText(parsed_meta.delays, tc.delays),
     case_info |-> tc.caseInfo, prop_info |-> tc.propInfo,
     sparky |-> IF tc.sparky THEN 1 ELSE 0,
     info_url |-> tc.infoUrl, data_files |-> tc.dataFiles, updated_on |-> tc.updatedOn]

\* lines 747-762: the motors row of a record without catalog entry
LocalMotorRow(id, mfr_id, parsed_meta, points) ==
    LET stats == calculate_thrust_stats(points)
    IN [id |-> id, manufacturer_id |-> mfr_id, tc_motor_id |-> NULL,
        designation |-> parsed_meta.designation,
        common_name |-> parsed_meta.common_name,
        impulse_class |-> NONE,
        diameter |-> parsed_meta.diameter, length |-> parsed_meta.length,
        total_impulse |-> stats[1], avg_thrust |-> stats[2],
        max_thrust |-> stats[3], burn_time |-> stats[4],
        propellant_weight |-> parsed_meta.prop_weight,
        total_weight |-> parsed_meta.total_weight,
        type |-> parsed_meta.type, delays |-> parsed_meta.delays,
        case_info |-> NONE, prop_info |-> NONE, sparky |-> 0,
        info_url |-> NONE, data_files |-> NoneNum, updated_on |-> NONE]

\* the counter advanced for every record
CountEveryRecord(count, inserted) == count + 1

\* line 768: motor_count after the motor step
MotorCountAfter(count, inserted) == IF inserted THEN count + 1 ELSE count

\* the file name's simfile id used for every file
SimfileOfAnyFile(simfile_id, is_single) == simfile_id

\* line 772
CurSimfile(simfile_id, is_single) == IF is_single THEN simfile_id ELSE NULL

\* no curve taken as a duplicate
NeverDuplicateCurve(cur_simfile, curves) == FALSE

\* line 774
IsDuplicateCurve(cur_simfile, curves) == TruthyId(cur_simfile) /\ cur_simfile \in DOMAIN curves

\* lines 779-792: the thrust_curves row
CurveRow(id, db_motor_id, cur_simfile, simfile_info, file_fmt, points) ==
    LET stats == calculate_thrust_stats(points)
        use == simfile_info # <<>> /\ TruthyId(cur_simfile)
    IN [id |-> id, motor_id |-> db_motor_id, tc_simfile_id |-> cur_simfile,
        source |-> IF use THEN DictGet(simfile_info[1].source, NONE) ELSE NONE,
        format |-> IF use THEN DictGet(simfile_info[1].format, file_fmt) ELSE file_fmt,
        license |-> IF use THEN DictGet(simfile_info[1].license, NONE) ELSE NONE,
        info_url |-> IF use THEN DictGet(simfile_info[1].infoUrl, NONE) ELSE NONE,
        data_url |-> IF use THEN DictGet(simfile_info[1].dataUrl, NONE) ELSE NONE,
        total_impulse |-> stats[1], avg_thrust |-> stats[2],
        max_thrust |-> stats[3], burn_time |-> stats[4]]

\* lines 800-803: the thrust_data rows of a curve
DataRows(curve_id, points) == [i \in 1..Len(points) |-> <<curve_id, points[i][1], points[i][2]>>]

\* ------------------------------------------------------------------------
\* State
\* ------------------------------------------------------------------------
VARIABLES
    corpus,                    \* the files in the order os.walk yields them
    build,                     \* number of the current run of build()
    pc,                        \* "start", "walk", "done"
    fi,                        \* index of the current file
    ri,                        \* index of the current record of the file
    manufacturers,             \* table manufacturers
    motors,                    \* table motors
    thrust_curves,             \* table thrust_curves
    thrust_data,               \* table thrust_data
    meta,                      \* table meta, a sequence of length 0 or 1
    mfr_name_to_id,
    inserted_motors_by_tc_id,
    inserted_motors_by_key,
    inserted_curves,
    motor_count,
    curve_count,
    metadata_file,             \* metadata.json, a sequence of length 0 or 1
    log,                       \* what each record of this run did (history)
    results,                   \* the metadata file of each finished run (history)
    now,                       \* the wall clock at its last reading, in seconds
    gz_file                    \* motors.db.gz, a sequence of length 0 or 1

tables == <<manufacturers, motors, thrust_curves, thrust_data, meta>>
dedup == <<mfr_name_to_id, inserted_motors_by_tc_id, inserted_motors_by_key, inserted_curves>>
counts == <<motor_count, curve_count>>
published == <<metadata_file, gz_file>>

\* the set-up of build() on arbitrary auxiliary JSON files
VARIABLES
    aux_files,                 \* manufacturers.json, simfile_to_motor.json, motors_metadata.json
    setup_pc,                  \* "idle", the line set-up stands at, "ready", "raised"
    loaded_manufacturers,      \* canonical_manufacturers as loaded
    loaded_mapping,            \* simfile_mapping as loaded
    loaded_motors,             \* tc_motors as loaded
    setup_error                \* the exception that left build(), "" when none

setup == <<aux_files, setup_pc, loaded_manufacturers, loaded_mapping, loaded_motors, setup_error>>

\* parse_rasp_all on one file
VARIABLES
    rasp_source,               \* the file as it was composed (history)
    rasp_pc,                   \* "idle", "lines", "done"
    rasp_i,                    \* index of the next line
    current_meta,              \* None (<<>>) or <<header>>
    current_points,
    rasp_motors                \* the list parse_rasp_all returns

rasp == <<rasp_source, rasp_pc, rasp_i, current_meta, current_points, rasp_motors>>

\* parse_rse_all on one document
VARIABLES
    rse_doc,                   \* the document (history)
    rse_pc,                    \* "idle", "engines", "done"
    rse_i,                     \* index of the next engine element
    rse_motors                 \* the list parse_rse_all returns

rse == <<rse_doc, rse_pc, rse_i, rse_motors>>

\* calculate_thrust_stats on one sample sequence
VARIABLES
    stats_points,              \* the argument
    stats_pc,                  \* "idle", "call", "done"
    stats_result               \* what the call returned

stats == <<stats_points, stats_pc, stats_result>>

\* sign_metadata of sign_database.py on one artifact and one metadata file
VARIABLES
    sign_db_file,              \* the bytes of db_file
    sign_metadata_file,        \* what json.load reads from metadata_file
    sign_file_before,          \* the metadata file as it was at the call
    sign_call,                 \* the arguments and the two environment variables
    sign_pc,                   \* "idle", "call", "done"
    sign_outcome               \* what the call returned or raised

sign == <<sign_db_file, sign_metadata_file, sign_file_before, sign_call, sign_pc, sign_outcome>>

\* lines 654-695 of build() on one record: the catalog match and the
\* manufacturer resolution
VARIABLES
    match_record,              \* parsed_meta of the record
    match_file,                \* is_single and the 24-hex tokens of the file name
    match_pc,                  \* "idle", "call", "done"
    match_outcome              \* the catalog match and the canonical manufacturer

match == <<match_record, match_file, match_pc, match_outcome>>

\* the finalization of build() (lines 825-868), statement by statement
VARIABLES
    fin_input,                 \* the counts of the walk and the clock reading
    fin_pc,                    \* "idle", or the line of the next statement, or "done"
    fin_txn,                   \* the connection: rows written but not committed, commits made
    fin_db_file,               \* motors.db as another reader of the file sees it
    fin_gz_file,               \* motors.db.gz, <<>> while it does not exist
    fin_sha256,                \* the digest computed at lines 853-855
    fin_metadata_file,         \* metadata.json, <<>> while it does not exist
    fin_events                 \* the statements executed so far

fin == <<fin_input, fin_pc, fin_txn, fin_db_file, fin_gz_file, fin_sha256, fin_metadata_file, fin_events>>

\* fetch_updates.py: the working tree, the ThrustCurve API and the clock
VARIABLES
    fetch_fs,                  \* the files fetch_updates.py reads and writes
    fetch_api,                 \* what the API answers
    fetch_clock,               \* datetime.now()
    fetch_runs,                \* runs of fetch_motors so far
    fetch_last                 \* the last run: the date it compared with, the motors it selected

fetch == <<fetch_fs, fetch_api, fetch_clock, fetch_runs, fetch_last>>

others == <<setup, rasp, rse, stats, sign, match, fin, fetch>>
vars == <<corpus, build, pc, fi, ri, tables, dedup, counts, published, log, results, now, others>>

mfr_lookup == build_manufacturer_lookup(canonical_manufacturers)

\* ------------------------------------------------------------------------
\* build(): set-up (lines 554-613)
\* ------------------------------------------------------------------------
\* lines 568-575: INSERT OR IGNORE of the canonical manufacturers
RECURSIVE LoadManufacturers(_, _)
LoadManufacturers(list, table) ==
    IF list = <<>> THEN table
    ELSE LET mfr == Head(list)
             present == \E i \in 1..Len(table) : table[i].name = mfr.name
         IN IF TruthyText(mfr.name) /\ ~present
            THEN LoadManufacturers(Tail(list),
                     Append(table, [id |-> Len(table) + 1, name |-> mfr.name,
                                    abbrev |-> mfr.abbrev]))
            ELSE LoadManufacturers(Tail(list), table)

\* SELECT id FROM manufacturers WHERE name = ?
MfrRowId(table, name) == table[CHOOSE i \in 1..Len(table) : table[i].name = name].id

\* the dedup maps kept from the previous run
KeptMap(old) == old

\* lines 605, 607, 609: the dedup maps of a run start empty
FreshMap(old) == EmptyMap

\* ------------------------------------------------------------------------
\* The auxiliary JSON files and their loaders (lines 35-72)
\* ------------------------------------------------------------------------
\* what json.loads returns
JObject(pairs) == [type |-> "object", value |-> pairs]
JArray(items) == [type |-> "array", value |-> items]
JNull == [type |-> "null", value |-> <<>>]

\* dict.get(key, default) on a dict held as <<key, value>> pairs
JHas(obj, key) == \E i \in 1..Len(obj.value) : obj.value[i][1] = key
JGet(obj, key, default) ==
    IF JHas(obj, key)
    THEN obj.value[CHOOSE i \in 1..Len(obj.value) : obj.value[i][1] = key][2]
    ELSE default

\* len(x) raises TypeError for None
HasLen(v) == v.type \in {"object", "array"}

\* A file is <<>> when it does not exist, else <<content>>.  Of the content:
\* decodes - f.read() returns text (else it raises UnicodeDecodeError),
\* blank   - content.strip() is empty,
\* parsed  - what json.loads returns, <<>> when it raises JSONDecodeError.
FileContent(decodes, blank, parsed) == [decodes |-> decodes, blank |-> blank, parsed |-> parsed]
NoFile == <<>>
EmptyFile == <<FileContent(TRUE, TRUE, <<>>)>>
TruncatedFile == <<FileContent(TRUE, FALSE, <<>>)>>
UndecodableFile == <<FileContent(FALSE, FALSE, <<>>)>>
JsonFile(v) == <<FileContent(TRUE, FALSE, <<v>>)>>

\* the three files as fetch_updates.py writes them
manufacturers_json == JObject(<< <<"manufacturers", JArray(canonical_manufacturers)>> >>)
motors_metadata_json == JObject(<< <<"motors", JObject(tc_motors)>> >>)
simfile_to_motor_json ==
    JObject(<< <<"s1", simfile_mapping["s1"]>>, <<"s2", simfile_mapping["s2"]>>,
               <<"s3", simfile_mapping["s3"]>>, <<"s4", simfile_mapping["s4"]>> >>)

ValidAuxFiles ==
    [manufacturers |-> JsonFile(manufacturers_json),
     simfile_mapping |-> JsonFile(simfile_to_motor_json),
     motors_metadata |-> JsonFile(motors_metadata_json)]

\* a file in the states it can be found in: missing, empty, cut short,
\* not text, well-formed with the expected value, well-formed JSON `[]`,
\* well-formed JSON `null`
FileStates(valid) ==
    {NoFile, EmptyFile, TruncatedFile, UndecodableFile,
     JsonFile(valid), JsonFile(JArray(<<>>)), JsonFile(JNull)}

AuxFileStates ==
    [manufacturers : FileStates(manufacturers_json),
     simfile_mapping : FileStates(simfile_to_motor_json),
     motors_metadata : FileStates(motors_metadata_json)]

Ok(v) == [error |-> "", value |-> v]
Raise(e) == [error |-> e, value |-> JNull]

\* the shared body of the loaders: exists, read, strip, json.loads; the
\* except clause names JSONDecodeError and IOError only.  <<>> when the
\* loader falls through to its default.
ReadJson(file) ==
    IF file = <<>> THEN Ok(<<>>)
    ELSE IF ~file[1].decodes THEN Raise("UnicodeDecodeError")
    ELSE IF file[1].blank THEN Ok(<<>>)
    ELSE Ok(file[1].parsed)

\* lines 35-45
load_motors_metadata(file) ==
    LET r == ReadJson(file)
    IN IF r.error # "" THEN r
       ELSE IF r.value # <<>> THEN Ok(r.value[1])
       ELSE Ok(JObject(<< <<"motors", JObject(<<>>)>> >>))

\* lines 48-59: data.get('manufacturers', []) is inside the try
load_manufacturers(file) ==
    LET r == ReadJson(file)
    IN IF r.error # "" THEN r
       ELSE IF r.value # <<>>
       THEN IF r.value[1].type = "object"
            THEN Ok(JGet(r.value[1], "manufacturers", JArray(<<>>)))
            ELSE Raise("AttributeError")
       ELSE Ok(JArray(<<>>))

\* lines 62-72
load_simfile_mapping(file) ==
    LET r == ReadJson(file)
    IN IF r.error # "" THEN r
       ELSE IF r.value # <<>> THEN Ok(r.value[1])
       ELSE Ok(JObject(<<>>))

\* build() is not being set up step by step
SetupIdle ==
    /\ aux_files = ValidAuxFiles
    /\ setup_pc = "idle"
    /\ loaded_manufacturers = JNull
    /\ loaded_mapping = JNull
    /\ loaded_motors = JNull
    /\ setup_error = ""

\* parse_rasp_all is not running
RaspIdle ==
    /\ rasp_source = <<>>
    /\ rasp_pc = "idle"
    /\ rasp_i = 1
    /\ current_meta = <<>>
    /\ current_points = <<>>
    /\ rasp_motors = <<>>

\* parse_rse_all is not running
RseIdle ==
    /\ rse_doc = <<>>
    /\ rse_pc = "idle"
    /\ rse_i = 1
    /\ rse_motors = <<>>

\* calculate_thrust_stats is not being called
StatsIdle ==
    /\ stats_points = <<>>
    /\ stats_pc = "idle"
    /\ stats_result = <<>>

\* sign_metadata is not being called
SignIdle ==
    /\ sign_db_file = <<>>
    /\ sign_metadata_file = JNull
    /\ sign_file_before = JNull
    /\ sign_call = <<>>
    /\ sign_pc = "idle"
    /\ sign_outcome = <<>>

\* no record is being matched on its own
MatchIdle ==
    /\ match_record = <<>>
    /\ match_file = <<>>
    /\ match_pc = "idle"
    /\ match_outcome = <<>>

\* build() is not being finalized step by step
FinIdle ==
    /\ fin_input = <<>>
    /\ fin_pc = "idle"
    /\ fin_txn = <<>>
    /\ fin_db_file = <<>>
    /\ fin_gz_file = <<>>
    /\ fin_sha256 = <<>>
    /\ fin_metadata_file = <<>>
    /\ fin_events = <<>>

\* fetch_updates.py is not run
FetchIdle ==
    /\ fetch_fs = <<>>
    /\ fetch_api = <<>>
    /\ fetch_clock = <<>>
    /\ fetch_runs = 0
    /\ fetch_last = <<>>

OthersIdle == SetupIdle /\ RaspIdle /\ RseIdle /\ StatsIdle /\ SignIdle /\ MatchIdle /\ FinIdle /\ FetchIdle

BuildInit ==
    /\ build = 1
    /\ pc = "start"
    /\ fi = 1
    /\ ri = 1
    /\ manufacturers = <<>>
    /\ motors = <<>>
    /\ thrust_curves = <<>>
    /\ thrust_data = <<>>
    /\ meta = <<>>
    /\ mfr_name_to_id = EmptyMap
    /\ inserted_motors_by_tc_id = EmptyMap
    /\ inserted_motors_by_key = EmptyMap
    /\ inserted_curves = EmptyMap
    /\ motor_count = 0
    /\ curve_count = 0
    /\ metadata_file = <<>>
    /\ log = <<>>
    /\ results = <<>>
    /\ now = 58
    /\ gz_file = <<>>

Init ==
    /\ corpus \in Corpora
    /\ OthersIdle
    /\ BuildInit

\* init_db() removes the old database; the canonical manufacturers are
\* inserted and the counters and maps are initialised
StartBuild ==
    /\ pc = "start"
    /\ LET table == LoadManufacturers(canonical_manufacturers, <<>>)
       IN /\ manufacturers' = table
          /\ mfr_name_to_id' = [n \in {table[i].name : i \in 1..Len(table)} |-> MfrRowId(table, n)]
    /\ motors' = <<>>
    /\ thrust_curves' = <<>>
    /\ thrust_data' = <<>>
    /\ meta' = <<>>
    /\ inserted_motors_by_tc_id' = FreshMap(inserted_motors_by_tc_id)
    /\ inserted_motors_by_key' = FreshMap(inserted_motors_by_key)
    /\ inserted_curves' = FreshMap(inserted_curves)
    /\ motor_count' = 0
    /\ curve_count' = 0
    /\ log' = <<>>
    /\ fi' = 1
    /\ ri' = 1
    /\ pc' = "walk"
    /\ UNCHANGED <<corpus, build, published, results, now, others>>

\* ------------------------------------------------------------------------
\* build(): the walk (lines 615-808)
\* ------------------------------------------------------------------------
Recognized(file) == IsRaspFile(file) \/ IsRseFile(file)

\* lines 639-644: another extension, or a file without records
SkipFile ==
    /\ pc = "walk"
    /\ fi <= Len(corpus)
    /\ ~Recognized(corpus[fi]) \/ corpus[fi].motors_list = <<>>
    /\ fi' = fi + 1
    /\ ri' = 1
    /\ UNCHANGED <<corpus, build, pc, tables, dedup, counts, published, log, results, now, others>>

\* the position after record ri of a file with n records
AfterRecord(f, r, n) == IF r < n THEN <<f, r + 1>> ELSE <<f + 1, 1>>

\* the position when the handler is inside the file's record loop but the
\* try block is around the loop
SkipRestOfFile(f, r, n) == <<f + 1, 1>>

\* lines 805-808: the handler is inside the record loop
AfterException(f, r, n) == AfterRecord(f, r, n)

\* the log entry of a record whose processing raised
RaisedEntry(f, r, is_single, simfile_id, parsed_meta, cat) ==
    [fi |-> f, ri |-> r, raised |-> TRUE, is_single |-> is_single,
     simfile_id |-> simfile_id, parsed_meta |-> parsed_meta,
     match |-> cat.match, tc_meta |-> cat.tc_meta, tc_motor_id |-> cat.tc_motor_id,
     mfr_name |-> NONE, mfr_id |-> 0, designation |-> NONE,
     db_motor_id |-> 0, motor_inserted |-> FALSE,
     cur_simfile |-> NULL, curve_skipped |-> FALSE, curve_id |-> 0]

\* lines 657-674: the catalog entry of a record
MatchCatalog(parsed_meta, is_single, simfile_info) ==
    LET parsed_mfr == Strip(Lower(parsed_meta.manufacturer))
        parsed_designation == Strip(Lower(parsed_meta.designation))
        exact == ExactMatch(is_single, simfile_info)
    IN IF ~UseFallback(exact[2])
       THEN [raised |-> FALSE, match |-> "exact", tc_meta |-> exact[2],
             tc_motor_id |-> exact[1]]
       ELSE IF MfrKeysRaise(parsed_mfr)
       THEN [raised |-> TRUE, match |-> "none", tc_meta |-> <<>>, tc_motor_id |-> NULL]
       ELSE LET hit == FallbackMatch(parsed_mfr, parsed_designation)
            IN IF hit # <<>>
               THEN [raised |-> FALSE, match |-> "fallback", tc_meta |-> hit,
                     tc_motor_id |-> hit[1].motorId]
               ELSE [raised |-> FALSE,
                     match |-> IF exact[2] # <<>> THEN "exact" ELSE "none",
                     tc_meta |-> exact[2], tc_motor_id |-> exact[1]]

\* lines 676-695: the manufacturer of a record
ResolveManufacturer(tc_meta, parsed_meta) ==
    LET parsed_mfr == Strip(Lower(parsed_meta.manufacturer))
    IN IF CanonicalRaises(mfr_lookup, parsed_mfr)
       THEN [raised |-> TRUE, name |-> NONE, abbrev |-> NONE]
       ELSE LET info == ManufacturerInfo(tc_meta, Canonical(mfr_lookup, parsed_mfr))
            IN [raised |-> FALSE, name |-> info[1], abbrev |-> info[2]]

\* lines 650-808: one iteration of the record loop
ProcessRecord ==
    /\ pc = "walk"
    /\ fi <= Len(corpus)
    /\ Recognized(corpus[fi])
    /\ corpus[fi].motors_list # <<>>
    /\ LET file == corpus[fi]
           n == Len(file.motors_list)
           is_single == n = 1
           parsed_meta == file.motors_list[ri][1]
           points == file.motors_list[ri][2]
       IN IF parsed_meta = <<>> \/ points = <<>>
          THEN \* lines 651-652
               /\ fi' = AfterRecord(fi, ri, n)[1]
               /\ ri' = AfterRecord(fi, ri, n)[2]
               /\ UNCHANGED <<tables, dedup, counts, log>>
          ELSE
          \* lines 647-648
          \E sim \in {extract_simfile_info_from_filename(file.matches, simfile_mapping)} :
          \E cat \in {MatchCatalog(parsed_meta, is_single, sim[2])} :
          \E mfr \in {IF cat.raised THEN [raised |-> TRUE, name |-> NONE, abbrev |-> NONE]
                      ELSE ResolveManufacturer(cat.tc_meta, parsed_meta)} :
          IF mfr.raised
          THEN \* lines 805-808: the IndexError is caught, nothing was written yet
               /\ fi' = AfterException(fi, ri, n)[1]
               /\ ri' = AfterException(fi, ri, n)[2]
               /\ log' = Append(log, RaisedEntry(fi, ri, is_single, sim[1], parsed_meta, cat))
               /\ UNCHANGED <<tables, dedup, counts>>
          ELSE
          \* lines 697-708
          \E cached \in {mfr.name \in DOMAIN mfr_name_to_id} :
          \E new_manufacturers \in
                {IF cached \/ \E i \in 1..Len(manufacturers) : manufacturers[i].name = mfr.name
                 THEN manufacturers
                 ELSE Append(manufacturers, [id |-> Len(manufacturers) + 1,
                                             name |-> mfr.name, abbrev |-> mfr.abbrev])} :
          \E mfr_id \in {IF cached THEN mfr_name_to_id[mfr.name]
                         ELSE MfrRowId(new_manufacturers, mfr.name)} :
          \* lines 710-718
          \E designation \in {Designation(cat.tc_meta, parsed_meta)} :
          \E existing \in {ExistingMotor(cat.tc_motor_id, <<mfr_id, designation>>,
                                         inserted_motors_by_tc_id, inserted_motors_by_key)} :
          \* lines 771-775
          \E cur_simfile \in {CurSimfile(sim[1], is_single)} :
          \E duplicate \in {IsDuplicateCurve(cur_simfile, inserted_curves)} :
          LET motor_key == <<mfr_id, designation>>
              insert_motor == existing = 0
              db_motor_id == IF insert_motor THEN Len(motors) + 1 ELSE existing
              curve_id == Len(thrust_curves) + 1
          IN   /\ manufacturers' = new_manufacturers
               /\ mfr_name_to_id' = IF cached THEN mfr_name_to_id
                                    ELSE MapSet(mfr_name_to_id, mfr.name, mfr_id)
               \* lines 720-769
               /\ motors' =
                      IF ~insert_motor THEN motors
                      ELSE IF cat.tc_meta # <<>>
                      THEN Append(motors, CatalogMotorRow(db_motor_id, mfr_id,
                                                          cat.tc_meta[1], parsed_meta))
                      ELSE Append(motors, LocalMotorRow(db_motor_id, mfr_id,
                                                        parsed_meta, points))
               /\ inserted_motors_by_tc_id' =
                      IF insert_motor /\ TruthyId(cat.tc_motor_id)
                      THEN MapSet(inserted_motors_by_tc_id, cat.tc_motor_id, db_motor_id)
                      ELSE inserted_motors_by_tc_id
               /\ inserted_motors_by_key' =
                      IF insert_motor
                      THEN MapSet(inserted_motors_by_key, motor_key, db_motor_id)
                      ELSE inserted_motors_by_key
               /\ motor_count' = MotorCountAfter(motor_count, insert_motor)
               \* lines 777-803
               /\ thrust_curves' =
                      IF duplicate THEN thrust_curves
                      ELSE Append(thrust_curves,
                                  CurveRow(curve_id, db_motor_id, cur_simfile,
                                           sim[2], FileFmt(file), points))
               /\ inserted_curves' =
                      IF ~duplicate /\ TruthyId(cur_simfile)
                      THEN MapSet(inserted_curves, cur_simfile, curve_id)
                      ELSE inserted_curves
               /\ curve_count' = IF duplicate THEN curve_count ELSE curve_count + 1
               /\ thrust_data' =
                      IF duplicate THEN thrust_data
                      ELSE thrust_data \o DataRows(curve_id, points)
               /\ meta' = meta
               /\ log' = Append(log,
                      [fi |-> fi, ri |-> ri, raised |-> FALSE, is_single |-> is_single,
                       simfile_id |-> sim[1], parsed_meta |-> parsed_meta,
                       match |-> cat.match,
                       tc_meta |-> cat.tc_meta, tc_motor_id |-> cat.tc_motor_id,
                       mfr_name |-> mfr.name, mfr_id |-> mfr_id,
                       designation |-> designation,
                       db_motor_id |-> db_motor_id, motor_inserted |-> insert_motor,
                       cur_simfile |-> cur_simfile, curve_skipped |-> duplicate,
                       curve_id |-> IF duplicate THEN 0 ELSE curve_id])
               /\ fi' = AfterRecord(fi, ri, n)[1]
               /\ ri' = AfterRecord(fi, ri, n)[2]
    /\ UNCHANGED <<corpus, build, pc, published, results, now, others>>

\* ------------------------------------------------------------------------
\* build(): finalization (lines 825-868)
\* ------------------------------------------------------------------------
schema_version == 2

\* line 826: int(datetime.now().strftime("%Y%m%d%H%M%S")) of the clock reading
\* t, a count of seconds: the minute and second digits (the higher fields
\* are formatted the same way)
database_version_of(t) == (t \div 60) * 100 + (t % 60)

\* line 827: datetime.now().isoformat(), to the second
generated_at_of(t) == <<t \div 60, t % 60>>

\* lines 829-838: the rows of table meta
MetaRows(t) ==
    <<[schema_version |-> schema_version,
       database_version |-> database_version_of(t),
       generated_at |-> generated_at_of(t),
       motor_count |-> motor_count, curve_count |-> curve_count]>>

\* motors.db after commit and VACUUM (lines 841-845)
DbImage(meta_rows) ==
    [manufacturers |-> manufacturers, motors |-> motors,
     thrust_curves |-> thrust_curves, thrust_data |-> thrust_data,
     meta |-> meta_rows]

\* lines 848-850: gzip.open(GZ_NAME, 'wb') writes a header with the time of
\* compression, then the compressed stream
GzipCompress(content, mtime) == [mtime |-> mtime, deflated |-> content]
GzipDecompress(gz) == gz.deflated

\* hashlib.sha256(...).hexdigest(), taken as collision-free: the digest
\* stands for exactly the bytes it was computed from
Sha256Hex(content) == [digest_of |-> content]

\* the digest of the uncompressed database
HashOfDatabase(db_image, gz_image) == Sha256Hex(db_image)

\* lines 853-855: the digest of the bytes of GZ_NAME
MetadataSha256(db_image, gz_image) == Sha256Hex(gz_image)

download_url == "https://openrocket.github.io/motor-database/motors.db.gz"

\* lines 857-865
Metadata(t, sha256) ==
    [schema_version |-> schema_version,
     database_version |-> database_version_of(t),
     generated_at |-> generated_at_of(t),
     motor_count |-> motor_count, curve_count |-> curve_count,
     sha256 |-> sha256, download_url |-> download_url]

\* the meta rows, the compressed artifact and the metadata file; the clock
\* has advanced by 0..MaxElapsed seconds since its last reading
Finalize ==
    /\ pc = "walk"
    /\ fi > Len(corpus)
    /\ \E t \in now..(now + MaxElapsed) :
       \E db \in {DbImage(MetaRows(t))} :
       \E gz \in {GzipCompress(db, t)} :
          /\ now' = t
          /\ meta' = MetaRows(t)
          /\ gz_file' = <<gz>>
          /\ metadata_file' = <<Metadata(t, MetadataSha256(db, gz))>>
    /\ results' = Append(results, metadata_file'[1])
    /\ pc' = "done"
    /\ UNCHANGED <<corpus, build, fi, ri, manufacturers, motors, thrust_curves,
                   thrust_data, dedup, counts, log, others>>

\* build() is run again on the same corpus
Rebuild ==
    /\ pc = "done"
    /\ build < Builds
    /\ build' = build + 1
    /\ pc' = "start"
    /\ UNCHANGED <<corpus, fi, ri, tables, dedup, counts, published, log, results, now, others>>

Next == StartBuild \/ SkipFile \/ ProcessRecord \/ Finalize \/ Rebuild

Spec == Init /\ [][Next]_vars

\* ------------------------------------------------------------------------
\* build() on corpora whose headers name a manufacturer by an alias
\* ------------------------------------------------------------------------
\* the header of recH128 with the manufacturer token Aero: an alias of
\* AeroTech in mfr_lookup (line 105), in no key of metadata_lookup
recH128Aero == RaspRecord(sH128W, 29, 194, sDelay6, 90, 200, <<"A","e","r","o">>, pointsB)

OrderKinds ==
    { File("eng", <<>>, <<recH128Aero>>),
      File("eng", <<"s1">>, <<recH128>>),
      File("eng", <<>>, <<recH128>>),
      File("rse", <<"s2">>, <<recNoMfg>>),
      File("json", <<>>, <<>>) }

InitOrder ==
    /\ corpus \in UNION { [1..n -> OrderKinds] : n \in 0..MaxFiles }
    /\ OthersIdle
    /\ BuildInit

SpecOrder == InitOrder /\ [][Next]_vars

\* ------------------------------------------------------------------------
\* build(): set-up on arbitrary auxiliary files (lines 554-598)
\* ------------------------------------------------------------------------
InitSetup ==
    /\ corpus = <<>>
    /\ BuildInit
    /\ FetchIdle
    /\ FinIdle
    /\ MatchIdle
    /\ aux_files \in AuxFileStates
    /\ setup_pc = "559"
    /\ loaded_manufacturers = JNull
    /\ loaded_mapping = JNull
    /\ loaded_motors = JNull
    /\ setup_error = ""
    /\ RaspIdle
    /\ RseIdle
    /\ StatsIdle
    /\ SignIdle

\* an exception that nothing in build() catches
SetupRaises(e) ==
    /\ setup_pc' = "raised"
    /\ setup_error' = e
    /\ UNCHANGED <<aux_files, loaded_manufacturers, loaded_mapping, loaded_motors>>

build_vars == <<corpus, build, pc, fi, ri, tables, dedup, counts, published, log, results, now>>

\* lines 559-560: load_manufacturers() and len(canonical_manufacturers)
SetupLoadManufacturers ==
    /\ setup_pc = "559"
    /\ \E r \in {load_manufacturers(aux_files.manufacturers)} :
          IF r.error # "" THEN SetupRaises(r.error)
          ELSE IF ~HasLen(r.value) THEN SetupRaises("TypeError")
          ELSE /\ loaded_manufacturers' = r.value
               /\ setup_pc' = "564"
               /\ UNCHANGED <<aux_files, loaded_mapping, loaded_motors, setup_error>>
    /\ UNCHANGED <<build_vars, rasp, rse, stats, sign, match, fin, fetch>>

\* lines 564-565: load_simfile_mapping() and len(simfile_mapping)
SetupLoadMapping ==
    /\ setup_pc = "564"
    /\ \E r \in {load_simfile_mapping(aux_files.simfile_mapping)} :
          IF r.error # "" THEN SetupRaises(r.error)
          ELSE IF ~HasLen(r.value) THEN SetupRaises("TypeError")
          ELSE /\ loaded_mapping' = r.value
               /\ setup_pc' = "567"
               /\ UNCHANGED <<aux_files, loaded_manufacturers, loaded_motors, setup_error>>
    /\ UNCHANGED <<build_vars, rasp, rse, stats, sign, match, fin, fetch>>

\* lines 567-578: the canonical manufacturers are inserted
SetupInsertManufacturers ==
    /\ setup_pc = "567"
    /\ LET table == LoadManufacturers(loaded_manufacturers.value, <<>>)
       IN /\ manufacturers' = table
          /\ mfr_name_to_id' = [n \in {table[i].name : i \in 1..Len(table)} |-> MfrRowId(table, n)]
    /\ setup_pc' = "581"
    /\ UNCHANGED <<corpus, build, pc, fi, ri, motors, thrust_curves, thrust_data, meta,
                   inserted_motors_by_tc_id, inserted_motors_by_key, inserted_curves,
                   counts, published, log, results, now>>
    /\ UNCHANGED <<aux_files, loaded_manufacturers, loaded_mapping, loaded_motors, setup_error, rasp, rse, stats, sign, match, fin, fetch>>

\* lines 581-598: load_motors_metadata(), tc_metadata.get('motors', {}),
\* len(tc_motors) and tc_motors.items()
SetupLoadMetadata ==
    /\ setup_pc = "581"
    /\ \E r \in {load_motors_metadata(aux_files.motors_metadata)} :
          IF r.error # "" THEN SetupRaises(r.error)
          ELSE IF r.value.type # "object" THEN SetupRaises("AttributeError")
          ELSE \E motors_value \in {JGet(r.value, "motors", JObject(<<>>))} :
               IF ~HasLen(motors_value) THEN SetupRaises("TypeError")
               ELSE IF motors_value.type # "object" THEN SetupRaises("AttributeError")
               ELSE /\ loaded_motors' = motors_value
                    /\ setup_pc' = "ready"
                    /\ UNCHANGED <<aux_files, loaded_manufacturers, loaded_mapping, setup_error>>
    /\ UNCHANGED <<build_vars, rasp, rse, stats, sign, match, fin, fetch>>

NextSetup ==
    SetupLoadManufacturers \/ SetupLoadMapping \/ SetupInsertManufacturers \/ SetupLoadMetadata

SpecSetup == InitSetup /\ [][NextSetup]_vars

\* ------------------------------------------------------------------------
\* parse_rasp_all (lines 471-519)
\* ------------------------------------------------------------------------
\* Numbers of this parser are fixed-point: a count of thousandths.
DigitChars == <<"0", "1", "2", "3", "4", "5", "6", "7", "8", "9">>
IsDigit(c) == \E d \in 1..10 : DigitChars[d] = c
DigitValue(c) == (CHOOSE d \in 1..10 : DigitChars[d] = c) - 1

\* the value of a string of digits
RECURSIVE DigitsValue(_)
DigitsValue(s) ==
    IF s = <<>> THEN 0 ELSE DigitsValue(SubSeq(s, 1, Len(s) - 1)) * 10 + DigitValue(s[Len(s)])

\* the value, in thousandths, of the digits after the point (at most three)
FractionValue(s) ==
    DigitsValue(s) * (CASE Len(s) = 0 -> 0 [] Len(s) = 1 -> 100 [] Len(s) = 2 -> 10 [] OTHER -> 1)

\* float(token): <<>> for ValueError, else <<value>>, for the numerals
\* digits, digits.digits, digits. and .digits
ParseFloat(token) ==
    LET points == {i \in 1..Len(token) : token[i] = "."}
        dot == IF points = {} THEN Len(token) + 1 ELSE CHOOSE i \in points : \A j \in points : i <= j
        whole == SubSeq(token, 1, dot - 1)
        fraction == SubSeq(token, dot + 1, Len(token))
    IN IF /\ Len(whole) + Len(fraction) > 0
          /\ Len(fraction) <= 3
          /\ \A i \in 1..Len(whole) : IsDigit(whole[i])
          /\ \A i \in 1..Len(fraction) : IsDigit(fraction[i])
       THEN <<DigitsValue(whole) * 1000 + FractionValue(fraction)>>
       ELSE <<>>

\* " ".join(parts)
RECURSIVE JoinWith(_, _)
JoinWith(parts, sep) ==
    IF parts = <<>> THEN <<>>
    ELSE IF Len(parts) = 1 THEN parts[1]
    ELSE parts[1] \o sep \o JoinWith(Tail(parts), sep)

sZero == <<"0">>
sP == <<"P">>
sp == <<"p">>

\* the delay token is kept whatever its value
KeepDelayToken(token) == token

\* line 481
DelaysOf(token) == IF token \in {sZero, sP, sp} THEN NONE ELSE token

\* the kilogram value as it is
KilogramsAsGrams(kg) == kg

\* lines 485-486: float(parts[4]) * 1000
GramsOf(kg) == kg * 1000

\* lines 477-490: None (<<>>) or <<header>>
try_header(parts) ==
    IF Len(parts) < 7 THEN <<>>
    ELSE LET diameter == ParseFloat(parts[2])
             length == ParseFloat(parts[3])
             prop_weight == ParseFloat(parts[5])
             total_weight == ParseFloat(parts[6])
         IN IF diameter = <<>> \/ length = <<>> \/ prop_weight = <<>> \/ total_weight = <<>>
            THEN <<>>
            ELSE <<RaspRecord(parts[1], diameter[1], length[1], DelaysOf(parts[4]),
                              GramsOf(prop_weight[1]), GramsOf(total_weight[1]),
                              JoinWith(SubSeq(parts, 7, Len(parts)), <<" ">>), <<>>)[1]>>

\* ---- the files parse_rasp_all is run on ----
Numeral(text, value) == [text |-> text, value |-> value]
n0 == Numeral(<<"0">>, 0)
n0_0 == Numeral(<<"0", ".", "0">>, 0)
n5 == Numeral(<<"5">>, 5000)
n10 == Numeral(<<"1", "0">>, 10000)
n0_5 == Numeral(<<"0", ".", "5">>, 500)
n_25 == Numeral(<<".", "2", "5">>, 250)
n29 == Numeral(<<"2", "9">>, 29000)
n124 == Numeral(<<"1", "2", "4", ".">>, 124000)
n150 == Numeral(<<"1", "5", "0">>, 150000)
n0_053 == Numeral(<<"0", ".", "0", "5", "3">>, 53)
n0_068 == Numeral(<<"0", ".", "0", "6", "8">>, 68)
n0_08 == Numeral(<<"0", ".", "0", "8">>, 80)
n0_1 == Numeral(<<"0", ".", "1">>, 100)
\* not a number: float() raises ValueError
nX == Numeral(<<"x", "2", "9">>, -1)

sTest == <<"T", "e", "s", "t">>
sMotors == <<"M", "o", "t", "o", "r", "s">>
sDelays == <<"5", "-", "1", "0", "-", "1", "5">>
sSemicolon == <<";">>
sFirstLine == <<"F", "i", "r", "s", "t", " ", "l", "i", "n", "e">>
sSecondLine == <<"S", "e", "c", "o", "n", "d", " ", "l", "i", "n", "e">>
sNextMotor == <<"N", "e", "x", "t", " ", "m", "o", "t", "o", "r">>
sEnd == <<"e", "n", "d">>

\* a header line as it is composed: its tokens and the blanks between them
Header(name, dia, len, delay, prop, total, mfr, sep) ==
    [name |-> name, dia |-> dia, len |-> len, delay |-> delay, prop |-> prop,
     total |-> total, mfr |-> mfr, sep |-> sep]

HeaderLine(h) ==
    JoinWith(<<h.name, h.dia.text, h.len.text, h.delay, h.prop.text, h.total.text>> \o h.mfr,
             h.sep)

\* a data line: time, thrust and the tokens after them
Sample(t, f, more) == [t |-> t, f |-> f, more |-> more]
SampleLine(d) == JoinWith(<<d.t.text, d.f.text>> \o d.more, <<" ">>)

\* a comment line
CommentLine(text) == sSemicolon \o <<" ">> \o text

DelayTokens == {sZero, sP, sp, sDelays, sDelay6}
MfrTokens == {<<sEstes>>, <<sTest, sMotors>>}

\* headers that parse
Headers ==
    {Header(sF32, n29, n124, delay, n0_053, n0_068, mfr, <<" ">>) :
        delay \in DelayTokens, mfr \in MfrTokens}
    \cup {Header(sG64, n29, n150, sP, n0_08, n0_1, <<sTest, sMotors>>, <<" ", " ">>)}

\* header lines that do not parse: six tokens, a diameter that is no number
BadHeaders ==
    {Header(sF32, n29, n124, sZero, n0_053, n0_068, <<>>, <<" ">>),
     Header(sF32, nX, n124, sZero, n0_053, n0_068, <<sEstes>>, <<" ">>)}

hdrFirst == Header(sF32, n29, n124, sZero, n0_053, n0_068, <<sTest, sMotors>>, <<" ">>)
hdrSecond == Header(sG64, n29, n150, sP, n0_08, n0_1, <<sTest, sMotors>>, <<" ", " ">>)

SampleKinds ==
    {Sample(n0, n5, <<>>), Sample(n_25, n10, <<n0_053.text>>), Sample(n0_5, n0_0, <<>>)}

RECURSIVE SeqsUpTo(_, _)
SeqsUpTo(S, n) ==
    IF n = 0 THEN {<<>>}
    ELSE LET shorter == SeqsUpTo(S, n - 1)
         IN shorter \cup {Append(q, x) : q \in {r \in shorter : Len(r) = n - 1}, x \in S}

\* the data lines under one header
SampleBlocks == SeqsUpTo(SampleKinds, MaxSamples)

\* lines that are neither header nor data: comments, a blank line, a word
Comment(text) == [comment |-> text]
Filler(text) == [filler |-> text]
Preambles == {<<>>, <<Comment(sFirstLine), Comment(sSecondLine)>>, <<Filler(<<" ">>), Comment(sNextMotor)>>}
Interludes == {<<>>, <<Comment(sNextMotor)>>, <<Filler(sEnd), Filler(<<>>)>>}

Source(pre, h1, d1, mid, h2, d2) ==
    [pre |-> pre, h1 |-> h1, d1 |-> d1, mid |-> mid, h2 |-> h2, d2 |-> d2]

\* files of two motors, and files of one header of every kind
RaspSources ==
    {Source(pre, <<hdrFirst>>, d1, mid, h2, d2) :
        pre \in Preambles, d1 \in SampleBlocks, mid \in Interludes,
        h2 \in {<<>>, <<hdrSecond>>}, d2 \in SampleBlocks}
    \cup {Source(<<>>, <<h>>, d1, <<>>, <<>>, <<>>) :
             h \in Headers \cup BadHeaders, d1 \in SampleBlocks}

OtherLine(x) == IF "comment" \in DOMAIN x THEN CommentLine(x.comment) ELSE x.filler

\* the lines of the file
RaspLines(src) ==
    [i \in 1..Len(src.pre) |-> OtherLine(src.pre[i])]
    \o [i \in 1..Len(src.h1) |-> HeaderLine(src.h1[i])]
    \o [i \in 1..Len(src.d1) |-> SampleLine(src.d1[i])]
    \o [i \in 1..Len(src.mid) |-> OtherLine(src.mid[i])]
    \o [i \in 1..Len(src.h2) |-> HeaderLine(src.h2[i])]
    \o [i \in 1..Len(src.d2) |-> SampleLine(src.d2[i])]

InitRasp ==
    /\ corpus = <<>>
    /\ BuildInit
    /\ FetchIdle
    /\ FinIdle
    /\ MatchIdle
    /\ SetupIdle
    /\ rasp_source \in RaspSources
    /\ rasp_pc = "lines"
    /\ rasp_i = 1
    /\ current_meta = <<>>
    /\ current_points = <<>>
    /\ rasp_motors = <<>>
    /\ RseIdle
    /\ StatsIdle
    /\ SignIdle

\* line 504: the motor is closed although its thrust is not zero
ClosesAlways(thrust) == TRUE

\* line 504: `if thrust == 0`
ClosesMotor(thrust) == thrust = 0

\* every header with or without points counts as a motor
HasHeader(header, points) == header # <<>>

\* lines 510 and 516: `if current_meta and current_points`
HasMotor(header, points) == header # <<>> /\ points # <<>>

\* the header stays open after the motor is closed
MetaKept(header) == header

\* line 506: `current_meta = None`
MetaAfterClose(header) == <<>>

\* lines 493-515: the body of the loop for one line
RaspLine ==
    /\ rasp_pc = "lines"
    /\ rasp_i <= Len(RaspLines(rasp_source))
    /\ rasp_i' = rasp_i + 1
    /\ \E line \in {Strip(RaspLines(rasp_source)[rasp_i])} :
       IF line = <<>> \/ Head(line) = ";"
       THEN UNCHANGED <<current_meta, current_points, rasp_motors>>
       ELSE \E parts \in {Split(line)} :
            IF current_meta = <<>>
            THEN /\ current_meta' = try_header(parts)
                 /\ current_points' = <<>>
                 /\ UNCHANGED rasp_motors
            ELSE IF Len(parts) < 2
            THEN UNCHANGED <<current_meta, current_points, rasp_motors>>
            ELSE \E t \in {ParseFloat(parts[1])}, thrust \in {ParseFloat(parts[2])} :
                 IF t # <<>> /\ thrust # <<>>
                 THEN IF ClosesMotor(thrust[1])
                      THEN /\ rasp_motors' = Append(rasp_motors,
                                  <<current_meta[1], Append(current_points, <<t[1], thrust[1]>>)>>)
                           /\ current_meta' = MetaAfterClose(current_meta)
                           /\ current_points' = <<>>
                      ELSE /\ current_points' = Append(current_points, <<t[1], thrust[1]>>)
                           /\ UNCHANGED <<current_meta, rasp_motors>>
                 ELSE \E hdr \in {try_header(parts)} :
                      IF hdr # <<>>
                      THEN /\ rasp_motors' =
                                IF HasMotor(current_meta, current_points)
                                THEN Append(rasp_motors, <<current_meta[1], current_points>>)
                                ELSE rasp_motors
                           /\ current_meta' = hdr
                           /\ current_points' = <<>>
                      ELSE UNCHANGED <<current_meta, current_points, rasp_motors>>
    /\ UNCHANGED <<rasp_source, rasp_pc>>
    /\ UNCHANGED <<build_vars, setup, rse, stats, sign, match, fin, fetch>>

\* lines 516-518: the end of the file
RaspEnd ==
    /\ rasp_pc = "lines"
    /\ rasp_i > Len(RaspLines(rasp_source))
    /\ rasp_motors' =
          IF HasMotor(current_meta, current_points)
          THEN Append(rasp_motors, <<current_meta[1], current_points>>)
          ELSE rasp_motors
    /\ rasp_pc' = "done"
    /\ UNCHANGED <<rasp_source, rasp_i, current_meta, current_points>>
    /\ UNCHANGED <<build_vars, setup, rse, stats, sign, match, fin, fetch>>

NextRasp == RaspLine \/ RaspEnd

SpecRasp == InitRasp /\ [][NextRasp]_vars

\* ------------------------------------------------------------------------
\* parse_rse_all (lines 522-551)
\* ------------------------------------------------------------------------
IsUpper(c) == \E i \in 1..26 : UpperChars[i] = c

\* re.match(r'^([A-Z][0-9]+)', designation): <<>> or <<group 1>>
CommonNameMatch(designation) ==
    LET digits == {n \in 1..(Len(designation) - 1) :
                      \A i \in 2..(n + 1) : IsDigit(designation[i])}
    IN IF designation # <<>> /\ IsUpper(designation[1]) /\ digits # {}
       THEN <<SubSeq(designation, 1, 1 + CHOOSE n \in digits : \A m \in digits : m <= n)>>
       ELSE <<>>

\* float(element.get(name, 0.0)): <<>> for ValueError
FloatAttr(v) == IF v = ABSENT THEN <<0>> ELSE ParseFloat(v)

\* lines 527-528
RseDelays(v) ==
    LET delays == DictGet(v, <<>>)
    IN IF delays \in {sZero, sP, sp, <<>>} THEN NONE ELSE delays

\* an engine element: its attributes (ABSENT when the attribute is missing)
\* and its first data child, <<>> when it has none, else <<eng-data list>>
Engine(code, mfg, dia, len, propWt, initWt, delays, data) ==
    [code |-> code, mfg |-> mfg, dia |-> dia, len |-> len, propWt |-> propWt,
     initWt |-> initWt, delays |-> delays, data |-> data]
EngData(t, f) == [t |-> t, f |-> f]

\* lines 542-546: None (<<>>) when a float() raises, else <<pts>>
RECURSIVE PointsOfData(_)
PointsOfData(items) ==
    IF items = <<>> THEN <<<<>>>>
    ELSE LET t == FloatAttr(Head(items).t)
             f == FloatAttr(Head(items).f)
             rest == PointsOfData(Tail(items))
         IN IF t = <<>> \/ f = <<>> \/ rest = <<>> THEN <<>>
            ELSE <<<<<<t[1], f[1]>>>> \o rest[1]>>

\* every engine is returned
KeepsEveryEngine(pts) == TRUE

\* line 547: `if pts`
KeepsEngine(pts) == pts # <<>>

\* lines 527-548 for one engine: <<>> when an exception is raised, else the
\* list of the records appended (none or one)
EngineRecords(engine) ==
    LET designation == DictGet(engine.code, sUnknown)
        cn_match == CommonNameMatch(designation)
        dia == FloatAttr(engine.dia)
        len == FloatAttr(engine.len)
        propWt == FloatAttr(engine.propWt)
        initWt == FloatAttr(engine.initWt)
        pts == IF engine.data = <<>> THEN <<<<>>>> ELSE PointsOfData(engine.data[1])
    IN IF dia = <<>> \/ len = <<>> \/ propWt = <<>> \/ initWt = <<>> \/ pts = <<>>
       THEN <<>>
       ELSE IF KeepsEngine(pts[1])
       THEN << <<RseRecord(designation,
                           IF cn_match # <<>> THEN cn_match[1] ELSE designation,
                           DictGet(engine.mfg, sUnknown), dia[1], len[1], propWt[1],
                           initWt[1], RseDelays(engine.delays), pts[1])>> >>
       ELSE << <<>> >>

\* ---- the documents parse_rse_all is run on ----
sRSECo == <<"R", "S", "E", " ", "C", "o">>
t38 == <<"3", "8">>
t200 == <<"2", "0", "0">>
t50 == <<"5", "0">>
t90 == <<"9", "0">>
t30 == <<"3", "0">>
t60 == <<"6", "0">>
t6_10 == <<"6", ",", "1", "0">>
t0_0 == <<"0", ".", "0">>
t0_2 == <<"0", ".", "2">>
t0_3 == <<"0", ".", "3">>
t0_4 == <<"0", ".", "4">>
t15_0 == <<"1", "5", ".", "0">>
t20_0 == <<"2", "0", ".", "0">>
tNA == <<"n", "/", "a">>

engG64W ==
    Engine(sG64W, sRSECo, n29.text, n150.text, t30, t60, sZero,
           <<<<EngData(t0_0, t0_0), EngData(t0_2, t20_0), EngData(t0_4, t0_0)>>>>)
engH128W ==
    Engine(sH128W, sRSECo, t38, t200, t50, t90, t6_10,
           <<<<EngData(t0_0, t0_0), EngData(t0_3, t15_0)>>>>)
\* an engine without attributes whose one eng-data has no f
engBare ==
    Engine(ABSENT, ABSENT, ABSENT, ABSENT, ABSENT, ABSENT, ABSENT, <<<<EngData(t0_3, ABSENT)>>>>)
\* an engine whose data element is empty, and one that has no data element
engEmptyData == Engine(sF32, sRSECo, n29.text, n124.text, t30, t60, sP, <<<<>>>>)
engNoData == Engine(sF40, sRSECo, n29.text, n124.text, t30, t60, ABSENT, <<>>)
\* an engine whose dia attribute is not a number
engBadDia == Engine(sF40, sRSECo, tNA, n124.text, t30, t60, sZero, <<<<EngData(t0_0, t15_0)>>>>)
\* an engine whose second eng-data has a t attribute that is not a number
engBadPoint ==
    Engine(sF32, sRSECo, n29.text, n124.text, t30, t60, sZero,
           <<<<EngData(t0_0, t15_0), EngData(tNA, t0_0)>>>>)

EngineKinds == {engG64W, engH128W, engBare, engEmptyData, engNoData, engBadDia, engBadPoint}

\* a document: whether ET.parse accepts it, and its engine elements in
\* document order
Document(parses, engines) == [parses |-> parses, engines |-> engines]

RseDocuments ==
    {Document(TRUE, engines) : engines \in SeqsUpTo(EngineKinds, MaxEngines)}
    \cup {Document(FALSE, <<>>)}

InitRse ==
    /\ corpus = <<>>
    /\ BuildInit
    /\ FetchIdle
    /\ FinIdle
    /\ MatchIdle
    /\ SetupIdle
    /\ RaspIdle
    /\ rse_doc \in RseDocuments
    /\ rse_pc = "engines"
    /\ rse_i = 1
    /\ rse_motors = <<>>
    /\ StatsIdle
    /\ SignIdle

\* the engines parsed before the exception are returned
ParsedSoFar(parsed) == parsed

\* lines 550-551: `except Exception: return []`
ReturnedOnException(parsed) == <<>>

\* lines 527-548: the body of the loop for one engine; an exception leaves
\* the loop and line 551 returns []
RseEngine ==
    /\ rse_pc = "engines"
    /\ rse_doc.parses
    /\ rse_i <= Len(rse_doc.engines)
    /\ \E records \in {EngineRecords(rse_doc.engines[rse_i])} :
          IF records = <<>>
          THEN /\ rse_motors' = ReturnedOnException(rse_motors)
               /\ rse_pc' = "done"
               /\ UNCHANGED rse_i
          ELSE /\ rse_motors' = rse_motors \o records[1]
               /\ rse_i' = rse_i + 1
               /\ UNCHANGED rse_pc
    /\ UNCHANGED <<rse_doc, build_vars, setup, rasp, stats, sign, match, fin, fetch>>

\* line 549 returns motors; lines 525 and 550-551: ET.parse raises and []
\* is returned
RseEnd ==
    /\ rse_pc = "engines"
    /\ ~rse_doc.parses \/ rse_i > Len(rse_doc.engines)
    /\ rse_motors' = IF rse_doc.parses THEN rse_motors ELSE ReturnedOnException(rse_motors)
    /\ rse_pc' = "done"
    /\ UNCHANGED <<rse_doc, rse_i, build_vars, setup, rasp, stats, sign, match, fin, fetch>>

NextRse == RseEngine \/ RseEnd

SpecRse == InitRse /\ [][NextRse]_vars

\* ------------------------------------------------------------------------
\* calculate_thrust_stats on arbitrary sample sequences (lines 438-455)
\* ------------------------------------------------------------------------
SampleTimes == {0, 1, 2}
SampleThrusts == {0, 4, 10}

\* twice the sum, over the consecutive pairs of samples, of the mean thrust
\* times the time step
RECURSIVE ImpulseTwice(_)
ImpulseTwice(points) ==
    IF Len(points) < 2 THEN 0
    ELSE LET n == Len(points)
         IN ImpulseTwice(SubSeq(points, 1, n - 1))
            + (points[n][2] + points[n - 1][2]) * (points[n][1] - points[n - 1][1])

\* the two divisions of the function are exact for the sequence
ExactlyDivisible(points) ==
    LET n == Len(points)
    IN /\ \A i \in 2..n : (points[i][2] + points[i - 1][2]) % 2 = 0
       /\ n > 0 /\ points[n][1] > 0 => ImpulseTwice(points) % (2 * points[n][1]) = 0

PointSequences ==
    {points \in SeqsUpTo(SampleTimes \X SampleThrusts, MaxPoints) : ExactlyDivisible(points)}

InitStats ==
    /\ corpus = <<>>
    /\ BuildInit
    /\ FetchIdle
    /\ FinIdle
    /\ MatchIdle
    /\ SetupIdle
    /\ RaspIdle
    /\ RseIdle
    /\ SignIdle
    /\ stats_points \in PointSequences
    /\ stats_pc = "call"
    /\ stats_result = <<>>

\* the call and its return
StatsCall ==
    /\ stats_pc = "call"
    /\ stats_result' = calculate_thrust_stats(stats_points)
    /\ stats_pc' = "done"
    /\ UNCHANGED <<stats_points, build_vars, setup, rasp, rse, sign, match, fin, fetch>>

NextStats == StatsCall

SpecStats == InitStats /\ [][NextStats]_vars

\* ------------------------------------------------------------------------
\* sign_database.py: sign_metadata (lines 11-84)
\* ------------------------------------------------------------------------
JString(text) == [type |-> "string", value |-> text]
JNumber(n) == [type |-> "number", value |-> n]

\* metadata[key] = value on a dict held as <<key, value>> pairs: an existing
\* key keeps its place, a new one goes last
JSet(obj, key, value) ==
    IF JHas(obj, key)
    THEN JObject([i \in 1..Len(obj.value) |->
                     IF obj.value[i][1] = key THEN <<key, value>> ELSE obj.value[i]])
    ELSE JObject(Append(obj.value, <<key, value>>))

\* str(n) of an int n >= 0
RECURSIVE Decimal(_)
Decimal(n) ==
    IF n < 10 THEN <<DigitChars[n + 1]>>
    ELSE Append(Decimal(n \div 10), DigitChars[(n % 10) + 1])

\* str(v) of a value json.load returned: a str, an int or None
PyStr(v) ==
    IF v.type = "string" THEN v.value
    ELSE IF v.type = "number" THEN Decimal(v.value)
    ELSE <<"N", "o", "n", "e">>

ENV_PRIVATE_KEY == "MOTOR_DB_PRIVATE_KEY_BASE64"
ENV_KEY_ID == "MOTOR_DB_KEY_ID"
MESSAGE_PREFIX == "openrocket-motordb-v1"

\* lines 16-24
compute_sha256_hex(content) == Sha256Hex(content)

\* Bytes that may hold a key: the encoding a loader recognises them by
\* ("DER", "PEM", "none"), the type of the private key they hold ("Ed25519",
\* "RSA", "none") and which key it is.
KeyBytes(encoding, key_type, key) == [encoding |-> encoding, key_type |-> key_type, key |-> key]
NoKeyBytes == KeyBytes("none", "none", "none")

\* A str given as the private key: whether it is "", whether
\* base64.b64decode accepts it, and the bytes it decodes to.
KeyString(valid_b64, decoded) == [empty |-> FALSE, valid_b64 |-> valid_b64, decoded |-> decoded]
EmptyString == [empty |-> TRUE, valid_b64 |-> TRUE, decoded |-> NoKeyBytes]

\* line 33: the two loaders, in the order they are tried
Loaders == <<"DER", "PEM">>

\* line 37: the loader parses the bytes into a private key
LoaderReads(loader, key_bytes) == key_bytes.encoding = loader /\ key_bytes.key_type # "none"

\* any private key a loader returns is taken
IsAnyPrivateKey(key_bytes) == TRUE

\* line 38: isinstance(key, ed25519.Ed25519PrivateKey)
IsEd25519PrivateKey(key_bytes) == key_bytes.key_type = "Ed25519"

\* lines 27-43: binascii.Error is a ValueError; a loader that fails or
\* returns another type of key lets the loop go on to the final raise
load_private_key_from_b64(private_key_b64) ==
    IF ~private_key_b64.valid_b64 THEN Raise("ValueError")
    ELSE IF \E i \in 1..Len(Loaders) :
               /\ LoaderReads(Loaders[i], private_key_b64.decoded)
               /\ IsEd25519PrivateKey(private_key_b64.decoded)
    THEN Ok(private_key_b64.decoded)
    ELSE Raise("ValueError")

\* Ed25519 is deterministic: a signature stands for the key and the message
\* it was made from, and verifies under the public half of that key only
Ed25519Sign(private_key, message) == [signed_with |-> private_key.key, message |-> message]
public_key(private_key) == [public_of |-> private_key.key]
Ed25519Verify(public, signature, message) ==
    signature = [signed_with |-> public.public_of, message |-> message]

B64Encode(bytes) == [base64_of |-> bytes]
B64Decode(text) == text.base64_of

\* line 63: three lines, each ended by "\n"
Message(db_version, sha256_gz) == <<MESSAGE_PREFIX, db_version, sha256_gz>>

\* os.environ.get(name) of lines 48 and 53: None when the variable is unset
EnvGet(call, name) ==
    IF name = ENV_PRIVATE_KEY THEN call.env_private_key ELSE call.env_key_id

SignRaises(e, metadata) == [error |-> e, file |-> metadata, value |-> <<>>]

\* lines 46-84.  An optional private key is <<>> for None and <<s>> for the
\* str s; a key id is NONE or a text.  `file` is the metadata file after the
\* call: it is opened for writing at line 76 only.
sign_metadata(db_file, metadata, call) ==
    LET private_key_b64 ==
            IF call.private_key_b64 = <<>> THEN EnvGet(call, ENV_PRIVATE_KEY)
            ELSE call.private_key_b64
        key_id == IF call.key_id = NONE THEN EnvGet(call, ENV_KEY_ID) ELSE call.key_id
        sha256_gz == compute_sha256_hex(db_file)
        db_version == Strip(PyStr(JGet(metadata, "database_version", JString(<<>>))))
        loaded == load_private_key_from_b64(private_key_b64[1])
        sig_b64 == B64Encode(Ed25519Sign(loaded.value, Message(db_version, sha256_gz)))
        signed == JSet(JSet(JSet(metadata, "sha256", JString(sha256_gz)),
                            "sha256_gz", JString(sha256_gz)),
                       "sig", JString(sig_b64))
        written == IF TruthyText(key_id) THEN JSet(signed, "key_id", JString(key_id))
                   ELSE signed
    IN IF private_key_b64 = <<>> \/ private_key_b64[1].empty
       THEN SignRaises("ValueError", metadata)
       ELSE IF db_version = <<>> THEN SignRaises("ValueError", metadata)
       ELSE IF loaded.error # "" THEN SignRaises(loaded.error, metadata)
       ELSE [error |-> "", file |-> written,
             value |-> [sha256 |-> sha256_gz, sha256_gz |-> sha256_gz, sig |-> sig_b64,
                        key_id |-> IF TruthyText(key_id) THEN key_id ELSE NONE]]

\* the artifact: any bytes
Artifacts == {<<"p", "a", "y", "l", "o", "a", "d">>, <<"g", "z">>}

\* database_version in the metadata file: missing, an int as build() writes
\* it, 0, a str, a str with blanks around it, "", " ", null
DatabaseVersions ==
    {<<>>, <<JNumber(database_version_of(58))>>, <<JNumber(0)>>, <<JString(<<"1">>)>>,
     <<JString(<<" ", "1", " ">>)>>, <<JString(<<>>)>>, <<JString(<<" ">>)>>, <<JNull>>}

sStale == <<"s", "t", "a", "l", "e">>

\* A metadata file: "bare" holds database_version at most, "built" also the
\* sha256 build() wrote, "signed" also what an earlier sign_metadata wrote.
MetadataFile(version, kind) ==
    JObject((IF version = <<>> THEN <<>> ELSE << <<"database_version", version[1]>> >>)
            \o (IF kind = "bare" THEN <<>> ELSE << <<"sha256", JString(sStale)>> >>)
            \o (IF kind = "signed"
                THEN << <<"sha256_gz", JString(sStale)>>, <<"sig", JString(sStale)>>,
                        <<"key_id", JString(<<"0">>)>> >>
                ELSE <<>>))

MetadataFiles == {MetadataFile(v, k) : v \in DatabaseVersions, k \in {"bare", "built", "signed"}}

keyEd25519Der == KeyString(TRUE, KeyBytes("DER", "Ed25519", "k1"))
keyEd25519Pem == KeyString(TRUE, KeyBytes("PEM", "Ed25519", "k2"))
keyRsaDer == KeyString(TRUE, KeyBytes("DER", "RSA", "k3"))
keyGarbage == KeyString(TRUE, NoKeyBytes)
keyNotBase64 == KeyString(FALSE, NoKeyBytes)

SignCalls ==
    [private_key_b64 : {<<>>, <<EmptyString>>, <<keyNotBase64>>, <<keyGarbage>>,
                        <<keyRsaDer>>, <<keyEd25519Der>>, <<keyEd25519Pem>>},
     key_id : {NONE, <<>>, <<"1">>},
     env_private_key : {<<>>, <<EmptyString>>, <<keyEd25519Der>>},
     env_key_id : {NONE, <<"2">>}]

InitSign ==
    /\ corpus = <<>>
    /\ BuildInit
    /\ FetchIdle
    /\ FinIdle
    /\ MatchIdle
    /\ SetupIdle
    /\ RaspIdle
    /\ RseIdle
    /\ StatsIdle
    /\ sign_db_file \in Artifacts
    /\ sign_metadata_file \in MetadataFiles
    /\ sign_file_before = sign_metadata_file
    /\ sign_call \in SignCalls
    /\ sign_pc = "call"
    /\ sign_outcome = <<>>

\* the call, to its return or its raise
SignCall ==
    /\ sign_pc = "call"
    /\ \E r \in {sign_metadata(sign_db_file, sign_metadata_file, sign_call)} :
          /\ sign_metadata_file' = r.file
          /\ sign_outcome' = [error |-> r.error, value |-> r.value]
    /\ sign_pc' = "done"
    /\ UNCHANGED <<sign_db_file, sign_file_before, sign_call, build_vars, setup, rasp, rse, stats, match, fin, fetch>>

NextSign == SignCall

SpecSign == InitSign /\ [][NextSign]_vars

\* ------------------------------------------------------------------------
\* build(): the catalog match and the manufacturer of one record (654-695)
\* ------------------------------------------------------------------------
sH128T == <<"H","1","2","8","T">>
sEMotors == <<"E"," ","M","o","t","o","r","s">>
sE_Motors == <<"E","_","M","o","t","o","r","s">>
sEM == <<"E","M">>
sEstesRockets == <<"E","s","t","e","s"," ","R","o","c","k","e","t","s">>
sAero == <<"A","e","r","o">>

\* manufacturers.json with one more manufacturer, whose name starts with a
\* word that is an alias of another manufacturer
manufacturers_with_e_motors ==
    Append(canonical_manufacturers, [name |-> sEMotors, abbrev |-> sEM])

match_lookup == build_manufacturer_lookup(manufacturers_with_e_motors)

\* the manufacturer tokens of the headers
MatchTokens ==
    {sAeroTech, sAT, sAero, sTestMotors, sTest_Motors, sEMotors, sE_Motors,
     sEstesRockets, sZed, sUnderscore, sEmpty}

\* designation and common name as parse_rasp_all (the same text) and
\* parse_rse_all (the letter-and-digits prefix) give them
MatchNames ==
    LET designations == {sH128W, sH128T, sH128, sG64W, sF32}
    IN {<<d, d>> : d \in designations}
       \cup {<<d, CommonNameMatch(d)[1]>> : d \in designations}

MatchRecords ==
    {[designation |-> n[1], common_name |-> n[2], manufacturer |-> m] :
        n \in MatchNames, m \in MatchTokens}

MatchFiles == [is_single : BOOLEAN, matches : {<<>>, <<"s1">>, <<"s3">>}]

InitMatch ==
    /\ corpus = <<>>
    /\ BuildInit
    /\ FetchIdle
    /\ FinIdle
    /\ SetupIdle
    /\ RaspIdle
    /\ RseIdle
    /\ StatsIdle
    /\ SignIdle
    /\ match_record \in MatchRecords
    /\ match_file \in MatchFiles
    /\ match_pc = "call"
    /\ match_outcome = <<>>

\* lines 647-684 for the record: simfile info, catalog match, canonical
\* manufacturer; an IndexError leaves the try block at the line that raises
MatchCall ==
    /\ match_pc = "call"
    /\ \E sim \in {extract_simfile_info_from_filename(match_file.matches, simfile_mapping)} :
       \E cat \in {MatchCatalog(match_record, match_file.is_single, sim[2])} :
       \E parsed_mfr \in {Strip(Lower(match_record.manufacturer))} :
          match_outcome' =
              IF cat.raised \/ CanonicalRaises(match_lookup, parsed_mfr)
              THEN [raised |-> TRUE, cat |-> cat, canonical |-> <<>>]
              ELSE [raised |-> FALSE, cat |-> cat,
                    canonical |-> Canonical(match_lookup, parsed_mfr)]
    /\ match_pc' = "done"
    /\ UNCHANGED <<match_record, match_file, build_vars, setup, rasp, rse, stats, sign, fin, fetch>>

NextMatch == MatchCall

SpecMatch == InitMatch /\ [][NextMatch]_vars

\* ------------------------------------------------------------------------
\* build(): the statements of the finalization (lines 825-868)
\* ------------------------------------------------------------------------
\* the rows the walk wrote through the cursor: motors, their curves and one
\* sample per curve
WalkRows(motors_n, curves_n) ==
    [i \in 1..motors_n |-> [table |-> "motors", id |-> i]]
    \o [i \in 1..curves_n |-> [table |-> "thrust_curves", id |-> i]]
    \o [i \in 1..curves_n |-> [table |-> "thrust_data", id |-> i]]

\* lines 829-838: executemany on table meta
FinMetaRowsOf(input) ==
    <<[table |-> "meta",
       schema_version |-> schema_version,
       database_version |-> database_version_of(input.t),
       generated_at |-> generated_at_of(input.t),
       motor_count |-> input.motor_count, curve_count |-> input.curve_count]>>

\* a commit that writes nothing to the file
CommitNothing(db_file, pending) == db_file

\* line 841: conn.commit() makes the rows of the open transaction part of
\* the database file
Commit(db_file, pending) == [db_file EXCEPT !.rows = db_file.rows \o pending]

\* line 844: VACUUM rebuilds the file; the rows stay
Vacuum(db_file) == [db_file EXCEPT !.compacted = TRUE]

FinInputs == [motor_count : 0..2, curve_count : 0..2, t : 58..60]

\* what an earlier build left behind
OldFiles == {<<>>, <<"old">>}

InitFin ==
    /\ corpus = <<>>
    /\ BuildInit
    /\ FetchIdle
    /\ SetupIdle
    /\ RaspIdle
    /\ RseIdle
    /\ StatsIdle
    /\ SignIdle
    /\ MatchIdle
    /\ fin_input \in FinInputs
    /\ fin_pc = "829"
    /\ fin_txn = [pending |-> WalkRows(fin_input.motor_count, fin_input.curve_count),
                  commits |-> 0]
    /\ fin_db_file = [rows |-> <<>>, compacted |-> FALSE]
    /\ fin_gz_file \in OldFiles
    /\ fin_sha256 = <<>>
    /\ fin_metadata_file \in OldFiles
    /\ fin_events = <<>>

FinStep(from, to, event) ==
    /\ fin_pc = from
    /\ fin_pc' = to
    /\ fin_events' = Append(fin_events, event)
    /\ UNCHANGED <<fin_input, build_vars, setup, rasp, rse, stats, sign, match, fetch>>

\* lines 829-838
FinInsertMeta ==
    /\ FinStep("829", "841", "meta rows")
    /\ fin_txn' = [fin_txn EXCEPT !.pending = @ \o FinMetaRowsOf(fin_input)]
    /\ UNCHANGED <<fin_db_file, fin_gz_file, fin_sha256, fin_metadata_file>>

\* line 841
FinCommit ==
    /\ FinStep("841", "844", "commit")
    /\ fin_db_file' = Commit(fin_db_file, fin_txn.pending)
    /\ fin_txn' = [pending |-> <<>>, commits |-> fin_txn.commits + 1]
    /\ UNCHANGED <<fin_gz_file, fin_sha256, fin_metadata_file>>

\* lines 844-845
FinVacuum ==
    /\ FinStep("844", "848", "vacuum")
    /\ fin_db_file' = Vacuum(fin_db_file)
    /\ UNCHANGED <<fin_txn, fin_gz_file, fin_sha256, fin_metadata_file>>

\* lines 848-850: the bytes of motors.db as the file holds them
FinCompress ==
    /\ FinStep("848", "853", "compress")
    /\ fin_gz_file' = <<GzipCompress(fin_db_file, fin_input.t)>>
    /\ UNCHANGED <<fin_txn, fin_db_file, fin_sha256, fin_metadata_file>>

\* lines 852-855
FinHash ==
    /\ FinStep("853", "867", "hash")
    /\ fin_sha256' = <<Sha256Hex(fin_gz_file[1])>>
    /\ UNCHANGED <<fin_txn, fin_db_file, fin_gz_file, fin_metadata_file>>

\* lines 857-868
FinWriteMetadata ==
    /\ FinStep("867", "done", "metadata")
    /\ fin_metadata_file' =
           <<[schema_version |-> schema_version,
              database_version |-> database_version_of(fin_input.t),
              generated_at |-> generated_at_of(fin_input.t),
              motor_count |-> fin_input.motor_count,
              curve_count |-> fin_input.curve_count,
              sha256 |-> fin_sha256[1], download_url |-> download_url]>>
    /\ UNCHANGED <<fin_txn, fin_db_file, fin_gz_file, fin_sha256>>

NextFin ==
    FinInsertMeta \/ FinCommit \/ FinVacuum \/ FinCompress \/ FinHash \/ FinWriteMetadata

SpecFin == InitFin /\ [][NextFin]_vars

\* ------------------------------------------------------------------------
\* fetch_updates.py: fetch_motors (lines 25-299)
\* ------------------------------------------------------------------------
MaxRuns == 2         \* runs of fetch_motors
MaxMotors == 2       \* motors in one search result

STATE_FILE == "state/last_sync.json"

\* dict[key] = value
DictSet(d, key, value) ==
    [k \in DOMAIN d \cup {key} |-> IF k = key THEN value ELSE d[k]]

\* the characters of dates and times in the order of their code points
DateChars == <<" ", "-", "0", "1", "2", "3", "4", "5", "6", "7", "8", "9", ":">>
CodePoint(c) == CHOOSE i \in 1..Len(DateChars) : DateChars[i] = c

\* a < b for str
RECURSIVE StrLess(_, _)
StrLess(a, b) ==
    IF b = <<>> THEN FALSE
    ELSE IF a = <<>> THEN TRUE
    ELSE IF Head(a) = Head(b) THEN StrLess(Tail(a), Tail(b))
    ELSE CodePoint(Head(a)) < CodePoint(Head(b))

\* the day of the stored string is compared with the day of the motor
DayAtLeast(a, b) == ~StrLess(a, SubSeq(b, 1, 10))

\* line 237: `updated_on >= last_updated_date` on two str
StrAtLeast(a, b) == ~StrLess(a, b)

\* %Y, %m, %d, %H, %M, %S: the number in decimal, padded with zeros
RECURSIVE Digits(_, _)
Digits(n, width) ==
    IF width = 0 THEN <<>> ELSE Digits(n \div 10, width - 1) \o <<DigitChars[(n % 10) + 1]>>

\* line 82: datetime.now().strftime("%Y-%m-%d %H:%M:%S")
Strftime(now_) ==
    Digits(now_.year, 4) \o <<"-">> \o Digits(now_.month, 2) \o <<"-">> \o Digits(now_.day, 2)
    \o <<" ">> \o Digits(now_.hour, 2) \o <<":">> \o Digits(now_.minute, 2)
    \o <<":">> \o Digits(now_.second, 2)

d1970 == <<"1", "9", "7", "0", "-", "0", "1", "-", "0", "1">>
dJan1 == <<"2", "0", "2", "5", "-", "0", "1", "-", "0", "1">>
dJan2 == <<"2", "0", "2", "5", "-", "0", "1", "-", "0", "2">>

Clock(day, hour) ==
    [year |-> 2025, month |-> 1, day |-> day, hour |-> hour, minute |-> 0, second |-> 0]

\* a file of the working tree: missing, or there with content that json.loads
\* accepts or not (an empty file reads as no content)
MissingFile == [exists |-> FALSE, parses |-> FALSE, value |-> <<>>]
DamagedFile == [exists |-> TRUE, parses |-> FALSE, value |-> <<>>]
SavedFile(value) == [exists |-> TRUE, parses |-> TRUE, value |-> value]

\* lines 25-35
load_state(file) ==
    IF file.exists /\ file.parses THEN file.value ELSE [last_updated |-> d1970]

\* lines 38-48 of fetch_updates.py
fetch_load_motors_metadata(file) ==
    IF file.exists /\ file.parses THEN file.value ELSE [motors |-> <<>>]

\* lines 58-68 of fetch_updates.py
fetch_load_simfile_mapping(file) ==
    IF file.exists /\ file.parses THEN file.value ELSE <<>>

\* lines 78-82: the one file save_state writes
save_state(state_dir, now_) ==
    DictSet(state_dir, STATE_FILE, SavedFile([last_updated |-> Strftime(now_)]))

IsAlnum(c) == IsDigit(c) \/ IsUpper(c) \/ \E i \in 1..26 : LowerChars[i] = c
IsSafeChar(c) == IsAlnum(c) \/ c \in {" ", "-", "_"}

\* lines 90-92
sanitize_filename(name) == Strip(SelectSeq(name, IsSafeChar))

\* one element of the download results
DownloadResult(data, simfileId, format) ==
    [data |-> data, simfileId |-> simfileId, format |-> format]
\* the data attribute: base64 text that b64decode accepts or not
B64Data(valid_b64, decoded) == [present |-> TRUE, valid_b64 |-> valid_b64, decoded |-> decoded]
\* no data attribute, or an empty one
NoData == [present |-> FALSE, valid_b64 |-> FALSE, decoded |-> <<>>]

\* lines 144-182 for the results from the k-th on; acc: the mapping, the
\* data files, saved_count
RECURSIVE DownloadResults(_, _, _, _, _, _)
DownloadResults(found, k, motor_id, mfr_name, motor_name, acc) ==
    IF k > Len(found) THEN acc
    ELSE LET res == found[k]
             fmt == DictGet(res.format, sRASP)
         IN IF ~res.data.present \/ res.simfileId = ABSENT \/ res.simfileId = <<>>
            THEN DownloadResults(found, k + 1, motor_id, mfr_name, motor_name, acc)
            ELSE LET mapped == DictSet(acc.mapping, res.simfileId,
                                       [motorId |-> motor_id, format |-> fmt])
                     file == [dir |-> sanitize_filename(mfr_name),
                              name |-> sanitize_filename(motor_name) \o <<"_">>
                                       \o res.simfileId \o <<".">> \o Lower(fmt),
                              content |-> res.data.decoded]
                 IN DownloadResults(found, k + 1, motor_id, mfr_name, motor_name,
                        IF res.data.valid_b64
                        THEN [mapping |-> mapped,
                              data |-> {f \in acc.data : f.dir # file.dir \/ f.name # file.name}
                                       \cup {file},
                              saved_count |-> acc.saved_count + 1]
                        ELSE [acc EXCEPT !.mapping = mapped])

\* lines 120-188: the mapping and the data files after the call, and
\* saved_count
download_motor_data(api, motor_id, mfr_name, motor_name, mapping, data) ==
    LET resp == api.download[motor_id]
    IN IF resp.status # 200
       THEN [mapping |-> mapping, data |-> data, saved_count |-> 0]
       ELSE DownloadResults(resp.results, 1, motor_id, mfr_name, motor_name,
                            [mapping |-> mapping, data |-> data, saved_count |-> 0])

\* a motor of a search result; updatedOn may be missing (ABSENT) or null (NONE)
SearchMotor(motorId, commonName, updatedOn) ==
    [motorId |-> motorId, commonName |-> commonName, updatedOn |-> updatedOn]

\* line 237 raises TypeError when updatedOn is null
FilterRaises(found) == \E k \in 1..Len(found) : found[k].updatedOn = NONE

IsUpdated(motor, last_updated_date) ==
    StrAtLeast(DictGet(motor.updatedOn, d1970), last_updated_date)

\* lines 233-238
MotorsToUpdate(found, last_updated_date) ==
    SelectSeq(found, LAMBDA motor : IsUpdated(motor, last_updated_date))

\* lines 245-283 for the motors from the k-th on
RECURSIVE UpdateMotors(_, _, _, _, _)
UpdateMotors(api, mfr, to_update, k, acc) ==
    IF k > Len(to_update) THEN acc
    ELSE LET motor == to_update[k]
             downloaded == download_motor_data(api, motor.motorId, mfr, motor.commonName,
                                               acc.mapping, acc.data)
         IN UpdateMotors(api, mfr, to_update, k + 1,
                [metadata |-> DictSet(acc.metadata, motor.motorId,
                                      [motorId |-> motor.motorId,
                                       commonName |-> motor.commonName,
                                       updatedOn |-> DictGet(motor.updatedOn, NONE)]),
                 mapping |-> downloaded.mapping,
                 data |-> downloaded.data,
                 total_downloaded |-> acc.total_downloaded + downloaded.saved_count,
                 total_metadata_updated |-> acc.total_metadata_updated + 1,
                 selected |-> acc.selected \cup {motor.motorId}])

\* lines 216-286 for the manufacturers from the k-th on
RECURSIVE SearchManufacturers(_, _, _, _, _)
SearchManufacturers(api, names, k, last_updated_date, acc) ==
    IF k > Len(names) THEN acc
    ELSE LET mfr == names[k]
             resp == api.search[mfr]
         IN SearchManufacturers(api, names, k + 1, last_updated_date,
                IF resp.status # 200 \/ FilterRaises(resp.results) THEN acc
                ELSE UpdateMotors(api, mfr, MotorsToUpdate(resp.results, last_updated_date),
                                  1, acc))

\* lines 95-117: the names, [] when the request fails
get_manufacturers(api) == IF api.metadata.status = 200 THEN api.metadata.names ELSE <<>>

\* lines 191-299: the working tree after one run, and what the run selected
fetch_motors(fs, api, now_) ==
    LET state == load_state(IF STATE_FILE \in DOMAIN fs.state_dir
                            THEN fs.state_dir[STATE_FILE] ELSE MissingFile)
        motors_metadata == fetch_load_motors_metadata(fs.motors_metadata)
        mapping == fetch_load_simfile_mapping(fs.simfile_mapping)
        last_updated_date ==
            IF motors_metadata.motors = <<>> THEN d1970 ELSE state.last_updated
        names == get_manufacturers(api)
        after_get == IF api.metadata.status = 200
                     THEN [fs EXCEPT !.manufacturers = SavedFile(api.metadata.names)]
                     ELSE fs
        done == SearchManufacturers(api, names, 1, last_updated_date,
                    [metadata |-> motors_metadata.motors, mapping |-> mapping,
                     data |-> fs.data, total_downloaded |-> 0,
                     total_metadata_updated |-> 0, selected |-> {}])
    IN [fs |-> [manufacturers |-> after_get.manufacturers,
                data |-> done.data,
                motors_metadata |->
                    IF done.total_metadata_updated > 0
                    THEN SavedFile([motors |-> done.metadata]) ELSE fs.motors_metadata,
                simfile_mapping |->
                    IF done.total_downloaded > 0
                    THEN SavedFile(done.mapping) ELSE fs.simfile_mapping,
                state_dir |->
                    IF names # <<>>
                       /\ (done.total_downloaded > 0 \/ done.total_metadata_updated > 0)
                    THEN save_state(fs.state_dir, now_) ELSE fs.state_dir],
        last_updated_date |-> last_updated_date,
        searched |-> names,
        selected |-> done.selected,
        total_downloaded |-> done.total_downloaded]

\* ---- the runs ----
sAcme == <<"A", "c", "m", "e">>
sTestMotorsInc == <<"T", "e", "s", "t", " ", "M", "o", "t", "o", "r", "s", ",", " ", "I", "n", "c", ".">>
sSimfileA == <<"a", "b", "c", "d", "e", "f", "1", "2", "3", "4", "5", "6">>
sSimfileB == <<"0", "0", "0", "0", "0", "0", "f", "f", "f", "f", "f", "f">>
sCurve == <<"G", "6", "4", " ", "2", "9">>

\* the motors the search for Acme may return
AcmeMotors ==
    {SearchMotor("motor-1", sG64, day) : day \in {dJan1, dJan2, ABSENT}}
    \cup {SearchMotor("motor-2", sF32, day) : day \in {dJan1, NONE}}

AcmeResults == {r \in SeqsUpTo(AcmeMotors, MaxMotors) :
                   \A i, j \in 1..Len(r) : r[i].motorId = r[j].motorId => i = j}

\* what the download of motor-2 may answer
Motor2Downloads ==
    {[status |-> 500, results |-> <<>>],
     [status |-> 200, results |-> <<>>],
     [status |-> 200, results |-> <<DownloadResult(NoData, sSimfileB, sRASP)>>],
     [status |-> 200, results |-> <<DownloadResult(B64Data(FALSE, <<>>), sSimfileB, ABSENT)>>]}

Apis ==
    {[metadata |-> [status |-> status, names |-> listed],
      search |-> (sAcme :> [status |-> 200, results |-> found])
                 @@ (sTestMotorsInc :> [status |-> 500, results |-> <<>>]),
      download |-> ("motor-1" :> [status |-> 200,
                                   results |-> <<DownloadResult(B64Data(TRUE, sCurve),
                                                                sSimfileA, sRASP)>>])
                   @@ ("motor-2" :> download2)] :
        status \in {200, 500}, listed \in {<<>>, <<sAcme>>, <<sTestMotorsInc, sAcme>>},
        found \in AcmeResults, download2 \in Motor2Downloads}

Clocks == {Clock(1, 0), Clock(1, 10), Clock(2, 10)}
ClockBefore(a, b) == a.day < b.day \/ (a.day = b.day /\ a.hour < b.hour)

\* the working tree before the first run: nothing, or the files of a tree
\* whose state file or metadata file is damaged
EmptyTree ==
    [manufacturers |-> MissingFile, data |-> {}, motors_metadata |-> MissingFile,
     simfile_mapping |-> MissingFile, state_dir |-> <<>>]

FirstTrees ==
    {[EmptyTree EXCEPT !.motors_metadata = metadata, !.state_dir = state_dir] :
        metadata \in {MissingFile, DamagedFile, SavedFile([motors |-> <<>>])},
        state_dir \in {<<>>, (STATE_FILE :> DamagedFile),
                       (STATE_FILE :> SavedFile([last_updated |-> Strftime(Clock(1, 0))]))}}

InitFetch ==
    /\ corpus = <<>>
    /\ BuildInit
    /\ SetupIdle
    /\ RaspIdle
    /\ RseIdle
    /\ StatsIdle
    /\ SignIdle
    /\ MatchIdle
    /\ FinIdle
    /\ fetch_fs \in FirstTrees
    /\ fetch_api \in Apis
    /\ fetch_clock \in Clocks
    /\ fetch_runs = 0
    /\ fetch_last = <<>>

\* one run of fetch_motors
FetchMotors ==
    /\ fetch_runs < MaxRuns
    /\ \E run \in {fetch_motors(fetch_fs, fetch_api, fetch_clock)} :
          /\ fetch_fs' = run.fs
          /\ fetch_last' = <<[before |-> fetch_fs,
                              last_updated_date |-> run.last_updated_date,
                              searched |-> run.searched,
                              selected |-> run.selected,
                              total_downloaded |-> run.total_downloaded]>>
    /\ fetch_runs' = fetch_runs + 1
    /\ UNCHANGED <<fetch_api, fetch_clock>>
    /\ UNCHANGED <<build_vars, setup, rasp, rse, stats, sign, match, fin>>

\* time passes between two runs
FetchTick ==
    /\ fetch_runs \in 1..(MaxRuns - 1)
    /\ \E later \in Clocks :
          /\ ClockBefore(fetch_clock, later)
          /\ fetch_clock' = later
    /\ UNCHANGED <<fetch_fs, fetch_api, fetch_runs, fetch_last>>
    /\ UNCHANGED <<build_vars, setup, rasp, rse, stats, sign, match, fin>>

NextFetch == FetchMotors \/ FetchTick

SpecFetch == InitFetch /\ [][NextFetch]_vars

\* ------------------------------------------------------------------------
\* Properties
\* ------------------------------------------------------------------------
Entries == {log[k] : k \in 1..Len(log)}
Processed == {e \in Entries : ~e.raised}

\* two motors rows with the same identity key: the catalog id when the row has
\* one, else (manufacturer_id, designation)
SameIdentity(r1, r2) ==
    IF r1.tc_motor_id # NULL /\ r2.tc_motor_id # NULL THEN r1.tc_motor_id = r2.tc_motor_id
    ELSE IF r1.tc_motor_id = NULL /\ r2.tc_motor_id = NULL
    THEN r1.manufacturer_id = r2.manufacturer_id /\ r1.designation = r2.designation
    ELSE FALSE

\* a motors row carries the identity key of a processed record
RowHasIdentityOf(row, e) ==
    IF e.tc_meta # <<>> /\ e.tc_meta[1].motorId # NULL
    THEN row.tc_motor_id = e.tc_meta[1].motorId
    ELSE row.tc_motor_id = NULL /\ row.manufacturer_id = e.mfr_id
         /\ row.designation = e.designation

\* C1: within one build the motors table holds at most one row per identity
\* key, and a record whose identity key already has a row inserts no motor
\* row but is attached to a row that was there before it.
C1_OneMotorPerIdentity ==
    /\ \A i, j \in 1..Len(motors) : i # j => ~SameIdentity(motors[i], motors[j])
    /\ \A e \in Processed :
          /\ e.db_motor_id \in 1..Len(motors)
          /\ e.motor_inserted =>
                \A i \in 1..(e.db_motor_id - 1) : ~RowHasIdentityOf(motors[i], e)
          /\ ~e.motor_inserted =>
                \E e0 \in Processed :
                    /\ e0.motor_inserted
                    /\ e0.db_motor_id = e.db_motor_id
                    /\ e0.fi < e.fi \/ (e0.fi = e.fi /\ e0.ri < e.ri)

\* a record of a later file found the row of its catalog id and one found the
\* row of its (manufacturer_id, designation)
C1_Witness ==
    /\ \E e \in Processed : ~e.motor_inserted /\ e.match # "none"
                            /\ motors[e.db_motor_id].tc_motor_id = e.tc_motor_id
    /\ \E e \in Processed : ~e.motor_inserted /\ e.match = "none" /\ e.tc_motor_id = NULL

\* the points of the record of a log entry
PointsOf(e) == corpus[e.fi].motors_list[e.ri][2]

\* C2: for single-motor files with a mapped simfile id, at most one
\* thrust_curves row exists per simfile id; a record whose simfile id already
\* has a row inserts no thrust_curves row and no thrust_data rows.
C2_OneCurvePerSimfile ==
    /\ \A i, j \in 1..Len(thrust_curves) :
          (i # j /\ thrust_curves[i].tc_simfile_id # NULL)
             => thrust_curves[i].tc_simfile_id # thrust_curves[j].tc_simfile_id
    /\ \A e \in Processed :
          (e.is_single /\ e.simfile_id # NULL) =>
             LET earlier == {e0 \in Processed :
                                /\ e0.fi < e.fi
                                /\ e0.curve_id # 0
                                /\ thrust_curves[e0.curve_id].tc_simfile_id = e.simfile_id}
             IN IF earlier # {} THEN e.curve_id = 0
                ELSE /\ e.curve_id \in 1..Len(thrust_curves)
                     /\ thrust_curves[e.curve_id].tc_simfile_id = e.simfile_id
    /\ \A c \in 1..Len(thrust_curves) :
          \E e \in Processed :
             /\ e.curve_id = c
             /\ Cardinality({i \in 1..Len(thrust_data) : thrust_data[i][1] = c})
                   = Len(PointsOf(e))
    /\ \A i \in 1..Len(thrust_data) : thrust_data[i][1] \in 1..Len(thrust_curves)

\* a second single-motor file with a simfile id that already has a curve
C2_Witness ==
    \E e \in Processed :
        /\ e.is_single /\ e.simfile_id # NULL /\ e.curve_skipped
        /\ \E c \in 1..Len(thrust_curves) : thrust_curves[c].tc_simfile_id = e.simfile_id
        /\ thrust_data # <<>>

\* C3: every record of a multi-motor file that is processed without exception
\* gets a thrust_curves row of its own with tc_simfile_id NULL, and the file
\* name's exact catalog match is not applied to it.
C3_MultiMotorFilesIgnoreSimfile ==
    \A e \in Processed :
        ~e.is_single =>
            /\ ~e.curve_skipped
            /\ e.curve_id \in 1..Len(thrust_curves)
            /\ thrust_curves[e.curve_id].tc_simfile_id = NULL
            /\ \A e2 \in Processed : e2 # e => e2.curve_id # e.curve_id
            /\ e.match # "exact"

\* both records of a two-motor file whose name carries a mapped simfile id
\* were processed, after a single-motor file used the same simfile id
C3_Witness ==
    \E e1, e2 \in Processed :
        /\ ~e1.is_single /\ e1.fi = e2.fi /\ e1.ri # e2.ri
        /\ e1.simfile_id # NULL
        /\ InTcMotors(simfile_mapping[e1.simfile_id].motorId)
        /\ \E c \in 1..Len(thrust_curves) : thrust_curves[c].tc_simfile_id = e1.simfile_id

\* what the file name of a log entry's file gives: <<simfile_id, simfile_info>>
SimOf(e) == extract_simfile_info_from_filename(corpus[e.fi].matches, simfile_mapping)

\* the file name's simfile id maps to a motor id that the catalog holds
ExactAvailable(e) ==
    /\ e.is_single
    /\ SimOf(e)[2] # <<>>
    /\ TruthyId(SimOf(e)[2][1].motorId)
    /\ InTcMotors(SimOf(e)[2][1].motorId)

ParsedMfr(e) == Strip(Lower(e.parsed_meta.manufacturer))
ParsedDesignation(e) == Strip(Lower(e.parsed_meta.designation))

\* C4: a record of a single-motor file whose file name id maps to a catalog
\* motor uses that catalog record, also when manufacturer+designation match
\* another one; the fallback record is used only when the exact match gives
\* none, and local values only when both give none.
C4_MatchPrecedence ==
    \A e \in Processed :
        /\ ExactAvailable(e) =>
              /\ e.match = "exact"
              /\ e.tc_meta = <<TcMotorsGet(SimOf(e)[2][1].motorId)>>
              /\ e.motor_inserted =>
                    motors[e.db_motor_id].tc_motor_id = SimOf(e)[2][1].motorId
        /\ e.match = "fallback" =>
              /\ ~ExactAvailable(e)
              /\ e.tc_meta = FallbackMatch(ParsedMfr(e), ParsedDesignation(e))
        /\ e.match = "none" =>
              /\ ~ExactAvailable(e)
              /\ FallbackMatch(ParsedMfr(e), ParsedDesignation(e)) = <<>>
              /\ e.tc_meta = <<>>
              /\ e.motor_inserted => motors[e.db_motor_id].tc_motor_id = NULL

\* a record with an exact match whose manufacturer and designation match
\* another catalog motor
C4_Witness ==
    \E e \in Processed :
        /\ ExactAvailable(e)
        /\ e.motor_inserted
        /\ FallbackMatch(ParsedMfr(e), ParsedDesignation(e)) # <<>>
        /\ FallbackMatch(ParsedMfr(e), ParsedDesignation(e)) # e.tc_meta

\* C5: two records without catalog record share a motors row if and only if
\* they have the same manufacturer row and the same designation.
C5_UnmatchedIdentity ==
    \A e1, e2 \in Processed :
        (e1.match = "none" /\ e2.match = "none") =>
            ((e1.db_motor_id = e2.db_motor_id)
                <=> (e1.mfr_id = e2.mfr_id
                     /\ e1.parsed_meta.designation = e2.parsed_meta.designation))

\* C6: a motors row created from a catalog-matched record takes common name,
\* diameter, length, delay spec and the two weights from the header when the
\* header value is non-empty and from the catalog otherwise; identity, catalog
\* id, impulse class and the measured statistics come from the catalog.
C6_HeaderOverridesCatalog ==
    \A e \in Processed :
        (e.motor_inserted /\ e.tc_meta # <<>>) =>
            LET row == motors[e.db_motor_id]
                tc == e.tc_meta[1]
                hdr == e.parsed_meta
            IN /\ row.common_name = OrText(hdr.common_name, tc.commonName)
               /\ row.diameter = OrNum(hdr.diameter, tc.diameter)
               /\ row.length = OrNum(hdr.length, tc.length)
               /\ row.delays = OrText(hdr.delays, tc.delays)
               /\ row.propellant_weight = OrNum(hdr.prop_weight, tc.propWeightG)
               /\ row.total_weight = OrNum(hdr.total_weight, tc.totalWeightG)
               /\ row.designation = tc.designation
               /\ row.tc_motor_id = tc.motorId
               /\ row.impulse_class = tc.impulseClass
               /\ row.total_impulse = tc.totImpulseNs
               /\ row.avg_thrust = tc.avgThrustN
               /\ row.max_thrust = tc.maxThrustN
               /\ row.burn_time = tc.burnTimeS

\* the keys of a manufacturer token that can be looked up
LookupKeysOf(parsed_mfr) ==
    {parsed_mfr, NormalizedMfr(parsed_mfr)}
    \cup (IF SplitFirstRaises(parsed_mfr) THEN {} ELSE {SplitFirst(parsed_mfr)})
    \cup (IF SplitFirstRaises(NormalizedMfr(parsed_mfr)) THEN {}
          ELSE {SplitFirst(NormalizedMfr(parsed_mfr))})

\* C7: a record whose manufacturer token matches no lookup key and that has
\* no catalog match gets a motors row under the manufacturer Unknown / UNK.
C7_UnknownManufacturerInserted ==
    \A e \in Entries :
        (/\ e.match = "none"
         /\ \A key \in LookupKeysOf(ParsedMfr(e)) : mfr_lookup_get(mfr_lookup, key) = <<>>)
        => /\ e.db_motor_id \in 1..Len(motors)
           /\ \E m \in 1..Len(manufacturers) :
                 /\ manufacturers[m].id = motors[e.db_motor_id].manufacturer_id
                 /\ manufacturers[m].name = sUnknown
                 /\ manufacturers[m].abbrev = sUNK

\* the records the walk has passed: of every recognized file before file f all
\* records, of file f the records before r
RecordsBefore(f, r) ==
    UNION { {<<i, j>> : j \in {k \in 1..Len(corpus[i].motors_list) : i < f \/ k < r}} :
            i \in {k \in 1..Len(corpus) : Recognized(corpus[k]) /\ k <= f} }

\* C8: an exception raised by one record is caught: every record the walk has
\* passed was handled, raised or not, and a finished build has handled every
\* record of every recognized file.
C8_ExceptionDoesNotAbort ==
    /\ pc = "walk" =>
          /\ {<<e.fi, e.ri>> : e \in Entries} = RecordsBefore(fi, ri)
          /\ Len(log) = Cardinality(RecordsBefore(fi, ri))
    /\ pc = "done" =>
          /\ {<<e.fi, e.ri>> : e \in Entries} = RecordsBefore(Len(corpus) + 1, 1)
          /\ Len(log) = Cardinality(RecordsBefore(Len(corpus) + 1, 1))
          /\ metadata_file # <<>>

\* a finished build in which a record raised and the next record of the same
\* file and a record of a later file were processed
C8_Witness ==
    /\ pc = "done"
    /\ \E e \in Entries :
          /\ e.raised
          /\ \E e2 \in Processed : e2.fi = e.fi /\ e2.ri > e.ri /\ e2.curve_id # 0
          /\ \E e3 \in Processed : e3.fi > e.fi /\ e3.curve_id # 0

\* C9: any two builds from the same corpus and catalog report the same
\* motor_count and curve_count.
C9_RebuildSameCounts ==
    \A i, j \in 1..Len(results) :
        /\ results[i].motor_count = results[j].motor_count
        /\ results[i].curve_count = results[j].curve_count

\* a second build has finished, in which a motor row was reused and a curve
\* was skipped as a duplicate
C9_Witness ==
    /\ Len(results) >= 2
    /\ pc = "done"
    /\ results[2].motor_count >= 1
    /\ \E e \in Processed : ~e.motor_inserted
    /\ \E e \in Processed : e.curve_skipped

\* C10: after build() the motor_count and curve_count of the metadata file and
\* of the meta table are the numbers of rows of motors and thrust_curves.
C10_CountsMatchTables ==
    pc = "done" =>
        /\ metadata_file # <<>>
        /\ metadata_file[1].motor_count = Len(motors)
        /\ metadata_file[1].curve_count = Len(thrust_curves)
        /\ meta # <<>>
        /\ meta[1].motor_count = Len(motors)
        /\ meta[1].curve_count = Len(thrust_curves)

\* a finished build in which one record raised, one reused a motor row and
\* one created a motor row
C10_Witness ==
    /\ pc = "done"
    /\ \E e \in Entries : e.raised
    /\ \E e \in Processed : ~e.motor_inserted
    /\ \E e \in Processed : e.motor_inserted
    /\ metadata_file[1].motor_count >= 1

\* ------------------------------------------------------------------------
\* The published artifact and its metadata
\* ------------------------------------------------------------------------
\* C11: when build() has completed, the sha256 of the metadata file is the
\* SHA-256 of motors.db.gz as that build wrote it, and motors.db.gz
\* decompresses to the database of that build
C11_Sha256OfArtifact ==
    pc = "done" =>
        /\ metadata_file # <<>>
        /\ gz_file # <<>>
        /\ metadata_file[1].sha256 = Sha256Hex(gz_file[1])
        /\ GzipDecompress(gz_file[1]) = DbImage(meta)

\* a second build has replaced the artifact of the first by a different one
C11_Witness ==
    /\ pc = "done"
    /\ build = 2
    /\ Len(motors) > 0
    /\ results[1].sha256 # results[2].sha256
    /\ metadata_file[1].sha256 = Sha256Hex(gz_file[1])

\* C12: of any two successive builds, the later one has the greater
\* database_version
C12_VersionIncreases ==
    \A i \in 1..(Len(results) - 1) :
        results[i + 1].database_version > results[i].database_version

\* ------------------------------------------------------------------------
\* Corrupt auxiliary files
\* ------------------------------------------------------------------------
\* the file is there and does not hold what fetch_updates.py writes
IsCorrupt(file, valid) == file # <<>> /\ file # JsonFile(valid)

IsEmptyData(v) == v.type \in {"object", "array"} /\ v.value = <<>>

\* C13: a present but corrupt auxiliary file never makes build() fail; the
\* build goes on with that file's data empty, as if the file were absent
C13_CorruptAuxiliaryIsAbsent ==
    /\ setup_pc # "raised"
    /\ setup_pc = "ready" =>
          /\ IsCorrupt(aux_files.manufacturers, manufacturers_json)
                => IsEmptyData(loaded_manufacturers)
          /\ IsCorrupt(aux_files.simfile_mapping, simfile_to_motor_json)
                => IsEmptyData(loaded_mapping)
          /\ IsCorrupt(aux_files.motors_metadata, motors_metadata_json)
                => IsEmptyData(loaded_motors)

\* ------------------------------------------------------------------------
\* parse_rasp_all
\* ------------------------------------------------------------------------
\* the header line holds at least 7 tokens and its numeric fields parse
ValidHeader(h) ==
    /\ Len(h.mfr) >= 1
    /\ \A n \in {h.dia, h.len, h.prop, h.total} : n.value >= 0

IsZeroThrust(d) == d.f.value = 0

PointOf(d) == <<d.t.value, d.f.value>>

\* the samples of a block of data lines: every line up to and including the
\* first line of zero thrust
SamplesOf(block) ==
    LET zeros == {i \in 1..Len(block) : IsZeroThrust(block[i])}
        last == IF zeros = {} THEN Len(block) ELSE CHOOSE i \in zeros : \A j \in zeros : i <= j
    IN [i \in 1..last |-> PointOf(block[i])]

\* two valid headers, each with data lines, the first motor's ending with a
\* line of zero thrust
TwoMotorFile(src) ==
    /\ src.h1 # <<>> /\ ValidHeader(src.h1[1])
    /\ src.h2 # <<>> /\ ValidHeader(src.h2[1])
    /\ src.d1 # <<>> /\ IsZeroThrust(src.d1[Len(src.d1)])
    /\ src.d2 # <<>>

\* C14: for a file of two valid headers, each followed by data lines, where
\* the first motor's data lines end with a zero-thrust line, parse_rasp_all
\* returns exactly two records, in file order, each with the samples under
\* its own header up to and including its zero-thrust line
C14_TwoRecordsOwnSamples ==
    rasp_pc = "done" /\ TwoMotorFile(rasp_source) =>
        /\ Len(rasp_motors) = 2
        /\ rasp_motors[1][1].designation = rasp_source.h1[1].name
        /\ rasp_motors[1][2] = SamplesOf(rasp_source.d1)
        /\ rasp_motors[2][1].designation = rasp_source.h2[1].name
        /\ rasp_motors[2][2] = SamplesOf(rasp_source.d2)

\* comments before both headers, two data lines under each, the second
\* motor's data not ending with zero thrust
C14_Witness ==
    /\ rasp_pc = "done"
    /\ TwoMotorFile(rasp_source)
    /\ rasp_source.pre # <<>> /\ rasp_source.mid # <<>>
    /\ Len(rasp_source.d1) = 2 /\ ~IsZeroThrust(rasp_source.d1[1])
    /\ Len(rasp_source.d2) = 2 /\ \A i \in 1..2 : ~IsZeroThrust(rasp_source.d2[i])
    /\ Len(rasp_motors) = 2
    /\ rasp_motors[2][2] = SamplesOf(rasp_source.d2)

\* the header line has just been read
HeaderRead == rasp_pc = "lines" /\ rasp_i = Len(rasp_source.pre) + 2

\* C15: for a header line of at least 7 tokens whose numeric fields parse,
\* the parsed weights are 1000 times the kilogram tokens, the delays are None
\* exactly for the tokens '0', 'P' and 'p' and the token itself otherwise, and
\* the manufacturer is the tokens from the 7th on joined by single blanks
C15_HeaderFields ==
    HeaderRead /\ ValidHeader(rasp_source.h1[1]) =>
        LET h == rasp_source.h1[1]
        IN /\ current_meta # <<>>
           /\ current_meta[1].prop_weight = 1000 * h.prop.value
           /\ current_meta[1].total_weight = 1000 * h.total.value
           /\ (current_meta[1].delays = NONE) <=> (h.delay \in {<<"0">>, <<"P">>, <<"p">>})
           /\ current_meta[1].delays # NONE => current_meta[1].delays = h.delay
           /\ current_meta[1].manufacturer = JoinWith(h.mfr, <<" ">>)

\* a header whose tokens are two blanks apart, with a two-word manufacturer
\* and the delay token 'P'
C15_Witness ==
    /\ HeaderRead
    /\ ValidHeader(rasp_source.h1[1])
    /\ rasp_source.h1[1].sep = <<" ", " ">>
    /\ current_meta # <<>>
    /\ current_meta[1].manufacturer = <<"T", "e", "s", "t", " ", "M", "o", "t", "o", "r", "s">>
    /\ current_meta[1].prop_weight = 80000
    /\ current_meta[1].delays = NONE

\* the text of the comment lines
RECURSIVE CommentTexts(_)
CommentTexts(lines) ==
    IF lines = <<>> THEN <<>>
    ELSE (IF "comment" \in DOMAIN Head(lines) THEN <<Head(lines).comment>> ELSE <<>>)
         \o CommentTexts(Tail(lines))

\* C16: every returned header has a 'description': the comment lines before
\* that motor's header, without their markers, joined by single blanks
C16_DescriptionFromComments ==
    rasp_pc = "done" /\ TwoMotorFile(rasp_source) /\ Len(rasp_motors) = 2 =>
        /\ "description" \in DOMAIN rasp_motors[1][1]
        /\ rasp_motors[1][1].description = JoinWith(CommentTexts(rasp_source.pre), <<" ">>)
        /\ "description" \in DOMAIN rasp_motors[2][1]
        /\ rasp_motors[2][1].description = JoinWith(CommentTexts(rasp_source.mid), <<" ">>)

\* the header lines of the file, each with the data lines between it and
\* the next header line
HeaderBlocks(src) ==
    IF src.h2 = <<>>
    THEN <<[h |-> src.h1[1], block |-> src.d1 \o src.d2]>>
    ELSE <<[h |-> src.h1[1], block |-> src.d1], [h |-> src.h2[1], block |-> src.d2]>>

\* the header is valid and at least one data line follows it
Qualifies(hb) == ValidHeader(hb.h) /\ hb.block # <<>>

\* the headers that qualify, with their data lines, in file order
Qualifying(src) == SelectSeq(HeaderBlocks(src), Qualifies)

\* C25: every record returned by parse_rasp_all has a non-empty sample
\* sequence, the records are those of the qualifying headers in file order,
\* and the result is the empty list exactly when no line of the file is a
\* valid header followed by at least one data line
C25_NonEmptyInFileOrder ==
    rasp_pc = "done" =>
        /\ \A k \in 1..Len(rasp_motors) : rasp_motors[k][2] # <<>>
        /\ Len(rasp_motors) = Len(Qualifying(rasp_source))
        /\ \A k \in 1..Len(rasp_motors) :
              rasp_motors[k][1].designation = Qualifying(rasp_source)[k].h.name
        /\ (rasp_motors = <<>>) <=>
               ~\E k \in 1..Len(HeaderBlocks(rasp_source)) :
                    Qualifies(HeaderBlocks(rasp_source)[k])

\* a first header without data lines, and a second header with them
C25_Witness ==
    /\ rasp_pc = "done"
    /\ rasp_source.h1 # <<>> /\ ValidHeader(rasp_source.h1[1]) /\ rasp_source.d1 = <<>>
    /\ rasp_source.h2 # <<>> /\ rasp_source.d2 # <<>>
    /\ Len(rasp_motors) = 1
    /\ rasp_motors[1][1].designation = rasp_source.h2[1].name

\* a header that does not parse, with data lines under it
C25_WitnessEmpty ==
    /\ rasp_pc = "done"
    /\ ~ValidHeader(rasp_source.h1[1])
    /\ rasp_source.d1 # <<>>
    /\ rasp_motors = <<>>

\* C28: in every curve returned by parse_rasp_all a zero-thrust sample can
\* only be the last point: the curve of a header is its data lines up to and
\* including the first line of zero thrust, and the data lines after that
\* line, up to the next header, are in no curve
C28_ZeroThrustOnlyLast ==
    rasp_pc = "done" =>
        /\ \A k \in 1..Len(rasp_motors) :
              \A i \in 1..(Len(rasp_motors[k][2]) - 1) : rasp_motors[k][2][i][2] # 0
        /\ \A k \in 1..Len(Qualifying(rasp_source)) :
              /\ k <= Len(rasp_motors)
              /\ rasp_motors[k][2] = SamplesOf(Qualifying(rasp_source)[k].block)

\* the very first data line has zero thrust and another data line follows it:
\* a curve of one point
C28_Witness ==
    /\ rasp_pc = "done"
    /\ ValidHeader(rasp_source.h1[1])
    /\ Len(rasp_source.d1) = 2
    /\ IsZeroThrust(rasp_source.d1[1])
    /\ ~IsZeroThrust(rasp_source.d1[2])
    /\ Len(rasp_motors) >= 1
    /\ Len(rasp_motors[1][2]) = 1
    /\ rasp_motors[1][2][1][2] = 0

\* the SamplePoint invariant of one curve
SamplePointInvariant(points) ==
    /\ \A i \in 1..Len(points) : points[i][1] >= 0 /\ points[i][2] >= 0
    /\ \A i \in 1..(Len(points) - 1) : points[i][1] <= points[i + 1][1]

\* C26: every curve parse_rasp_all emits satisfies the SamplePoint
\* invariant: each point has time >= 0 and thrust >= 0, and the points are in
\* ascending time order
C26_SamplePointInvariant ==
    rasp_pc = "done" =>
        \A k \in 1..Len(rasp_motors) : SamplePointInvariant(rasp_motors[k][2])

\* ------------------------------------------------------------------------
\* parse_rse_all
\* ------------------------------------------------------------------------
\* the attributes that are read as numbers are numerals
NumericAttrs(engine) ==
    /\ \A v \in {engine.dia, engine.len, engine.propWt, engine.initWt} :
          v = ABSENT \/ ParseFloat(v) # <<>>
    /\ engine.data # <<>> =>
          \A i \in 1..Len(engine.data[1]) :
             \A v \in {engine.data[1][i].t, engine.data[1][i].f} :
                v = ABSENT \/ ParseFloat(v) # <<>>

\* a document ET.parse accepts, all of whose engines have numeric attributes
WellFormed(doc) ==
    doc.parses /\ \A i \in 1..Len(doc.engines) : NumericAttrs(doc.engines[i])

HasDataPoint(engine) == engine.data # <<>> /\ engine.data[1] # <<>>

\* C17: parse_rse_all returns one record per engine element that has at least
\* one data point, in document order; an engine element without data points
\* gives no record and leaves the records of the other engines as they are
C17_OneRecordPerEngineWithPoints ==
    rse_pc = "done" /\ WellFormed(rse_doc) =>
        LET with_points == SelectSeq(rse_doc.engines, HasDataPoint)
        IN /\ Len(rse_motors) = Len(with_points)
           /\ \A k \in 1..Len(with_points) :
                 /\ rse_motors[k][1].designation = DictGet(with_points[k].code, sUnknown)
                 /\ rse_motors[k][2] =
                       [i \in 1..Len(with_points[k].data[1]) |->
                           <<FloatAttr(with_points[k].data[1][i].t)[1],
                             FloatAttr(with_points[k].data[1][i].f)[1]>>]

\* an engine without data points between two engines that have some
C17_Witness ==
    /\ rse_pc = "done"
    /\ rse_doc.engines = <<engG64W, engEmptyData, engH128W>>
    /\ Len(rse_motors) = 2
    /\ rse_motors[1][1].designation = sG64W
    /\ rse_motors[2][1].designation = sH128W
    /\ rse_motors[2][1].common_name = sH128
    /\ rse_motors[2][2] = <<<<0, 0>>, <<300, 15000>>>>

\* C29: parse_rse_all is all-or-nothing per file: when an engine element of
\* a document ET.parse accepts has a dia, len, propWt, initWt, t or f
\* attribute that is not a number, the call returns the empty list, without
\* the engines parsed before that element
C29_AllOrNothing ==
    /\ rse_pc = "done" /\ rse_doc.parses /\ ~WellFormed(rse_doc) => rse_motors = <<>>
    /\ rse_pc = "engines" /\ rse_i <= Len(rse_doc.engines) =>
           \A k \in 1..(rse_i - 1) : NumericAttrs(rse_doc.engines[k])

\* two engines with data points were parsed before the engine whose t
\* attribute is not a number
C29_Witness ==
    /\ rse_pc = "done"
    /\ rse_doc.engines = <<engG64W, engH128W, engBadPoint>>
    /\ rse_i = 3
    /\ rse_motors = <<>>

\* ------------------------------------------------------------------------
\* calculate_thrust_stats
\* ------------------------------------------------------------------------
\* C18: calculate_thrust_stats returns (0,0,0,0) for no samples; otherwise
\* burn_time is the time of the last sample, max_thrust the greatest thrust,
\* impulse the sum over consecutive pairs of (f[i]+f[i-1])/2 * (t[i]-t[i-1])
\* (0 for one sample) and avg_thrust impulse/burn_time when burn_time > 0,
\* else 0
C18_ThrustStats ==
    stats_pc = "done" =>
        LET p == stats_points
            n == Len(p)
            impulse == stats_result[1]
            avg_thrust == stats_result[2]
            max_thrust == stats_result[3]
            burn_time == stats_result[4]
        IN IF n = 0 THEN stats_result = <<0, 0, 0, 0>>
           ELSE /\ burn_time = p[n][1]
                /\ \E i \in 1..n : max_thrust = p[i][2]
                /\ \A i \in 1..n : max_thrust >= p[i][2]
                /\ 2 * impulse = ImpulseTwice(p)
                /\ n = 1 => impulse = 0
                /\ burn_time > 0 => avg_thrust * burn_time = impulse
                /\ burn_time <= 0 => avg_thrust = 0

\* the sequence (0,0), (1,10), (2,0): impulse 10, avg 5, max 10, burn time 2
C18_Witness ==
    /\ stats_pc = "done"
    /\ stats_points = << <<0, 0>>, <<1, 10>>, <<2, 0>> >>
    /\ stats_result = <<10, 5, 10, 2>>

\* ------------------------------------------------------------------------
\* sign_metadata
\* ------------------------------------------------------------------------
\* the private key the call was given: the argument, else the environment
KeyGiven ==
    IF sign_call.private_key_b64 # <<>> THEN sign_call.private_key_b64
    ELSE sign_call.env_private_key

\* a key id was supplied, as the argument or through the environment
KeyIdSupplied ==
    \/ TruthyText(sign_call.key_id)
    \/ sign_call.key_id = NONE /\ TruthyText(sign_call.env_key_id)

SignSucceeded == sign_pc = "done" /\ sign_outcome.error = ""

\* C19: after sign_metadata succeeds, sha256 and sha256_gz of the metadata
\* file are the SHA-256 of the artifact, sig is the returned sig and verifies
\* under the given key for the message made of MESSAGE_PREFIX, the file's
\* database_version and that hash, and the file has a key_id exactly when a
\* key id was supplied
C19_SignedMetadata ==
    SignSucceeded =>
        LET sha == Sha256Hex(sign_db_file)
            version == Strip(PyStr(JGet(sign_metadata_file, "database_version", JNull)))
            sig == JGet(sign_metadata_file, "sig", JNull)
        IN /\ JGet(sign_metadata_file, "sha256", JNull) = JString(sha)
           /\ JGet(sign_metadata_file, "sha256_gz", JNull) = JString(sha)
           /\ sig = JString(sign_outcome.value.sig)
           /\ Ed25519Verify(public_key(KeyGiven[1].decoded), B64Decode(sig.value),
                            Message(version, sha))
           /\ JHas(sign_metadata_file, "key_id") <=> KeyIdSupplied

\* neither the argument nor the environment variable holds a private key
NoKeyGiven == sign_call.private_key_b64 = <<>> /\ sign_call.env_private_key = <<>>

\* the key given is not valid base64 or does not hold an Ed25519 private key
UnusableKey ==
    /\ KeyGiven # <<>>
    /\ ~KeyGiven[1].empty
    /\ ~KeyGiven[1].valid_b64 \/ KeyGiven[1].decoded.key_type # "Ed25519"

NoDatabaseVersion == ~JHas(sign_file_before, "database_version")

\* C20: sign_metadata raises ValueError when no private key is given by
\* argument or environment, when the key is not valid base64 or not an
\* Ed25519 private key, and when the metadata has no database_version; and
\* whenever it raises, the metadata file is as it was before the call
C20_FailuresLeaveFileAlone ==
    sign_pc = "done" =>
        /\ NoKeyGiven \/ UnusableKey \/ NoDatabaseVersion => sign_outcome.error = "ValueError"
        /\ sign_outcome.error # "" => sign_metadata_file = sign_file_before

\* a key of another type, valid base64, against a file signed before
C20_Witness ==
    /\ sign_pc = "done"
    /\ sign_call.private_key_b64 = <<keyRsaDer>>
    /\ sign_call.env_private_key = <<keyEd25519Der>>
    /\ JHas(sign_file_before, "database_version")
    /\ JHas(sign_file_before, "sig")
    /\ sign_outcome.error = "ValueError"
    /\ sign_metadata_file = sign_file_before

\* ------------------------------------------------------------------------
\* The catalog match and the manufacturer of one record
\* ------------------------------------------------------------------------
\* the manufacturer keys (a) to (d) in order; (c) and (d) exist when the
\* text they are the first word of has a word
KeysInOrder(token) ==
    LET a == Strip(Lower(token))
        b == Strip(ReplaceUnderscore(a))
    IN <<a, b>> \o (IF Split(a) = <<>> THEN <<>> ELSE <<Split(a)[1]>>)
                \o (IF Split(b) = <<>> THEN <<>> ELSE <<Split(b)[1]>>)

\* for each manufacturer key the designation key, then the common-name key
ProbesInOrder(record) ==
    LET keys == KeysInOrder(record.manufacturer)
        d == Strip(Lower(record.designation))
        c == Strip(Lower(record.common_name))
    IN [i \in 1..(2 * Len(keys)) |->
           IF i % 2 = 1 THEN <<keys[(i + 1) \div 2], d>> ELSE <<keys[i \div 2], c>>]

FirstOf(S) == CHOOSE i \in S : \A j \in S : i <= j

\* C22: when the file name gave no catalog entry, the record gets the entry
\* of the first key in metadata_lookup among, for each of the four
\* manufacturer keys in order, (key, designation) and (key, common name)
C22_FallbackByDesignationOrCommonName ==
    match_pc = "done" /\ match_outcome.cat.match # "exact" =>
        LET probes == ProbesInOrder(match_record)
            hits == {i \in 1..Len(probes) : LastAssigned(metadata_lookup, probes[i]) # <<>>}
        IN hits # {} =>
              match_outcome.cat.tc_meta = LastAssigned(metadata_lookup, probes[FirstOf(hits)])

\* C23: the canonical manufacturer is the lookup table's entry for the first
\* of the keys (a) lowercased token, (b) underscores replaced by blanks,
\* (c) first word of (a), (d) first word of (b) that the table holds
C23_FirstKeyWins ==
    match_pc = "done" =>
        LET keys == KeysInOrder(match_record.manufacturer)
            present == {i \in 1..Len(keys) : mfr_lookup_get(match_lookup, keys[i]) # <<>>}
        IN present # {} =>
              /\ ~match_outcome.raised
              /\ match_outcome.canonical = mfr_lookup_get(match_lookup, keys[FirstOf(present)])

\* the token E_Motors: key (a) is the manufacturer E Motors, key (d) is "e",
\* an alias of Estes Industries
C23_Witness ==
    /\ match_pc = "done"
    /\ match_record.manufacturer = sE_Motors
    /\ mfr_lookup_get(match_lookup, KeysInOrder(sE_Motors)[4]) = << <<sEstesIndustries, sEstes>> >>
    /\ match_outcome.canonical = << <<sEMotors, sEM>> >>

\* ------------------------------------------------------------------------
\* The stored motor and the traversal order
\* ------------------------------------------------------------------------
\* C27: when a record of the corpus matched catalog motor T, the finished
\* build has a motors row with tc_motor_id = T that carries the catalog
\* fields, whatever was processed before that record
C27_CatalogMotorStored ==
    pc = "done" =>
        \A e \in Processed :
            e.tc_meta # <<>> =>
                \E i \in 1..Len(motors) :
                    /\ motors[i].tc_motor_id = e.tc_meta[1].motorId
                    /\ motors[i].impulse_class = e.tc_meta[1].impulseClass
                    /\ motors[i].total_impulse = e.tc_meta[1].totImpulseNs

\* the statements of the finalization, in the order of the source
FinOrder == <<"meta rows", "commit", "vacuum", "compress", "hash", "metadata">>

FinDone(event) == \E i \in 1..Len(fin_events) : fin_events[i] = event

\* every row of the build: the walk's inserts and the meta rows
FinAllRows ==
    WalkRows(fin_input.motor_count, fin_input.curve_count) \o FinMetaRowsOf(fin_input)

\* C24: build() finalizes in a fixed order: the statements executed so far
\* are a prefix of (meta rows, commit, VACUUM, compress, hash, metadata);
\* the walk's inserts and the meta rows reach the database file together, at
\* the one commit, which is made exactly once; the compressed file holds the
\* compacted database with all the rows; the digest is the one of the
\* compressed file; and the sidecar metadata file is written last, carrying
\* that digest.
C24_FinalizationOrder ==
    fin_pc # "idle" =>
        /\ fin_events = SubSeq(FinOrder, 1, Len(fin_events))
        /\ fin_txn.commits = (IF FinDone("commit") THEN 1 ELSE 0)
        /\ fin_db_file.rows = (IF FinDone("commit") THEN FinAllRows ELSE <<>>)
        /\ FinDone("commit") => fin_txn.pending = <<>>
        /\ fin_db_file.compacted = FinDone("vacuum")
        /\ FinDone("compress") =>
               /\ GzipDecompress(fin_gz_file[1]) = [rows |-> FinAllRows, compacted |-> TRUE]
        /\ ~FinDone("compress") => fin_gz_file \in OldFiles
        /\ fin_sha256 = (IF FinDone("hash") THEN <<Sha256Hex(fin_gz_file[1])>> ELSE <<>>)
        /\ ~FinDone("metadata") => fin_metadata_file \in OldFiles
        /\ FinDone("metadata") =>
               /\ fin_pc = "done"
               /\ fin_events = FinOrder
               /\ fin_metadata_file[1].sha256 = Sha256Hex(fin_gz_file[1])
               /\ fin_metadata_file[1].motor_count = fin_input.motor_count

\* a finished finalization of a build with motors and curves, over the files
\* of an earlier build
C24_Witness ==
    /\ fin_pc = "done"
    /\ fin_input.motor_count = 2
    /\ fin_input.curve_count = 2
    /\ Len(fin_db_file.rows) = 7
    /\ fin_txn.commits = 1
    /\ fin_events = FinOrder

\* ------------------------------------------------------------------------
\* fetch_motors
\* ------------------------------------------------------------------------
\* the run selected a motor whose download holds a data file
SelectedWithDataFile ==
    /\ fetch_last # <<>>
    /\ "motor-1" \in fetch_last[1].selected
    /\ fetch_last[1].total_downloaded > 0

\* C21: after a run of fetch_motors in which the search returned an updated
\* motor with a downloadable data file, the motors metadata file contains
\* that motor id, the simfile mapping file maps the file's simfile id to that
\* motor id, the data file exists under the manufacturer's directory, and two
\* state files have been written: one for the last update and one for the
\* last check
C21_FilesAndBothStateFiles ==
    SelectedWithDataFile =>
        /\ fetch_fs.motors_metadata.parses
        /\ "motor-1" \in DOMAIN fetch_fs.motors_metadata.value.motors
        /\ fetch_fs.simfile_mapping.parses
        /\ sSimfileA \in DOMAIN fetch_fs.simfile_mapping.value
        /\ fetch_fs.simfile_mapping.value[sSimfileA].motorId = "motor-1"
        /\ \E f \in fetch_fs.data :
              /\ f.dir = sAcme
              /\ f.name = sG64 \o <<"_">> \o sSimfileA \o <<".", "r", "a", "s", "p">>
        /\ \E last_update, last_check \in DOMAIN fetch_fs.state_dir :
              /\ last_update # last_check
              /\ fetch_fs.state_dir[last_update].parses
              /\ fetch_fs.state_dir[last_check].parses

\* a >= b for two str, position by position
LexAtLeast(a, b) ==
    \/ Len(b) <= Len(a) /\ SubSeq(a, 1, Len(b)) = b
    \/ \E i \in 1..Len(a) :
          /\ i <= Len(b)
          /\ SubSeq(a, 1, i - 1) = SubSeq(b, 1, i - 1)
          /\ CodePoint(a[i]) > CodePoint(b[i])

\* the run started after a reset: no state file or a damaged one, or no
\* motor in the metadata file
AfterReset(tree) ==
    \/ STATE_FILE \notin DOMAIN tree.state_dir
    \/ ~tree.state_dir[STATE_FILE].parses
    \/ ~tree.motors_metadata.exists
    \/ ~tree.motors_metadata.parses
    \/ tree.motors_metadata.value.motors = <<>>

\* the stored last_updated string the run compares with
StoredLastUpdated(tree) ==
    IF AfterReset(tree) THEN d1970 ELSE tree.state_dir[STATE_FILE].value.last_updated

\* the search results of the last run whose updatedOn is a str or missing
ComparedResults ==
    IF fetch_last = <<>> \/ fetch_api.metadata.status # 200
    THEN <<>>
    ELSE LET found == fetch_api.search[sAcme].results
         IN IF (\E i \in 1..Len(fetch_api.metadata.names) : fetch_api.metadata.names[i] = sAcme)
               /\ \A k \in 1..Len(found) : found[k].updatedOn # NONE
            THEN found ELSE <<>>

\* C30: fetch_motors selects a motor exactly when its updatedOn string is
\* lexicographically >= the stored last_updated string; the stored string is
\* 'YYYY-MM-DD HH:MM:SS', so a motor whose updatedOn is the day of the last
\* sync is not selected by the next run; after a reset (missing or corrupt
\* state, or empty metadata: last_updated '1970-01-01') every motor is
\* selected
C30_SelectedByStringOrder ==
    \A k \in 1..Len(ComparedResults) :
        LET motor == ComparedResults[k]
            updated_on == IF motor.updatedOn = ABSENT THEN d1970 ELSE motor.updatedOn
            stored == StoredLastUpdated(fetch_last[1].before)
        IN /\ motor.motorId \in fetch_last[1].selected <=> LexAtLeast(updated_on, stored)
           /\ Len(stored) = 19 /\ SubSeq(stored, 1, 10) = updated_on =>
                 motor.motorId \notin fetch_last[1].selected
           /\ AfterReset(fetch_last[1].before) => motor.motorId \in fetch_last[1].selected
           /\ stored = d1970 \/ Len(stored) = 19

\* the second run, on the day after a sync of January 1st at 10:00: the motor
\* updated on January 1st is not selected, the motor updated on January 2nd is
C30_Witness ==
    /\ fetch_runs = 2
    /\ ~AfterReset(fetch_last[1].before)
    /\ StoredLastUpdated(fetch_last[1].before)
           = <<"2", "0", "2", "5", "-", "0", "1", "-", "0", "1", " ",
               "1", "0", ":", "0", "0", ":", "0", "0">>
    /\ Len(ComparedResults) = 2
    /\ ComparedResults[1].updatedOn = dJan2
    /\ ComparedResults[2].updatedOn = dJan1
    /\ fetch_last[1].selected = {"motor-1"}

\* the first run on a tree whose state file is damaged: both motors selected
C30_WitnessReset ==
    /\ fetch_runs = 1
    /\ STATE_FILE \in DOMAIN fetch_last[1].before.state_dir
    /\ AfterReset(fetch_last[1].before)
    /\ Len(ComparedResults) = 2
    /\ fetch_last[1].selected = {"motor-1", "motor-2"}

====
